---- MODULE Spec2Model ----
(***************************************************************************)
(* Model of the generation orchestrator of the SiteGenerator component     *)
(* (src/src/components/ai/SiteGenerator.tsx): handleGenerate with its      *)
(* model fail-over loop, bounded retries, response classification and the  *)
(* attemptAutoFix repair call.  One action is one run of JavaScript        *)
(* between two awaits.                                                     *)
(***************************************************************************)
EXTENDS Integers, Sequences, FiniteSets, TLC

VARIABLES
    \* ---- component state (useState hooks) ----
    apiKey,          \* string
    model,           \* user-selected model identity
    prompt,          \* string
    generationType,  \* "preview" | "fullstack" | "react-vite"
    loading,         \* boolean
    error,           \* message record, NoMsg for null
    site,            \* parsed GeneratedSite, NoResult for null
    website,         \* parsed GeneratedWebsite, NoResult for null
    reactProject,    \* parsed GeneratedReactProject, NoResult for null
    lastRawText,     \* text record, NoText for null
    fixing,          \* boolean
    \* ---- locals of the running handleGenerate invocation ----
    pc,              \* "idle" | "fetch" | "sleep" | "fix" | "done": the await it is at
    modelsToTry,     \* the candidate list built at line 351
    mi,              \* index of currentModel in modelsToTry (for..of position)
    attempt,         \* the inner loop counter
    lastError,       \* message record, NoMsg for null
    typeAtStart,     \* the generationType the running handler closed over,
                     \* "none" when no handler runs
    \* ---- the network and the timers ----
    inFlight,        \* set of requests issued and not yet answered
    \* ---- history of the running invocation ----
    primaryLog,      \* sequence of primary requests issued: [model, mi, attempt]
    repairCount,     \* number of repair requests issued
    sleepLog,        \* sequence of backoff delays started, in ms
    allTransient,    \* every primary attempt so far was answered 503/UNAVAILABLE
    \* ---- the exporter (src/src/lib/exportSite.ts), the downloads and the
    \* ---- parse step, called on their own ----
    exportOp,        \* the operation called last, "none" before any
    exportIn,        \* its argument
    exportOut,       \* what it returned or emitted
    exportArg        \* the object given as argument, as the call left it

vars == << apiKey, model, prompt, generationType, loading, error, site, website,
           reactProject, lastRawText, pc, modelsToTry, mi, attempt,
           lastError, inFlight, primaryLog, repairCount, sleepLog, allTransient,
           exportOp, exportIn, exportOut, exportArg, fixing, typeAtStart >>

uiVars == << apiKey, model, prompt, generationType >>
histVars == << primaryLog, repairCount, sleepLog >>
exportVars == << exportOp, exportIn, exportOut, exportArg >>

----------------------------------------------------------------------------
(* Program constants *)

DEFAULT_MODEL == "gemini-1.5-flash"

\* variant: one retry more than intended
maxRetriesThree == 2 + 1

maxRetries == 2

BuiltinModels == << "gemini-1.5-flash", "gemini-1.5-pro", "gemini-2.0-flash",
                    "gemini-2.0-flash-exp", "gemini-1.0-pro" >>

\* variant: the user's model is tried after the fallbacks
BuildModelsToTrySelectedLast(m) == BuiltinModels \o << m >>

\* const modelsToTry = [model, ...five literals]
BuildModelsToTry(m) == << m >> \o BuiltinModels

GenerationTypes == { "preview", "fullstack", "react-vite" }

----------------------------------------------------------------------------
(* Input domains *)

\* models the user can select (SelectItem values): the default, which is also
\* a built-in fallback, and the one that is in no fallback position
ModelChoices == { "gemini-1.5-flash", "gemini-2.5-flash" }

ApiKeys == { "", "key" }
\* useState's initial prompt (abbreviated) and a blank one
DefaultPrompt == "Create a modern React application"
Prompts == { " ", DefaultPrompt }

\* String.prototype.trim on the prompts above
Trim(s) == IF s = " " THEN "" ELSE s

----------------------------------------------------------------------------
(* Texts, bodies and responses of the upstream *)

\* A text is a payload, possibly wrapped in a markdown fence:
\*   fence "json":  "```json\n" payload "\n```"
\*   fence "none":  payload
\* Payloads: JSON text of a value accepted by SiteSchema ("site"),
\* WebsiteSchema ("website"), ReactProjectSchema ("react"), and text that is
\* not JSON ("garbage").
Payloads == { "site", "website", "react", "garbage" }
Texts == [ fence : { "none" }, payload : Payloads ]
            \cup { [ fence |-> "json", payload |-> "site" ] }

NoText == [ fence |-> "none", payload |-> "null" ]
EmptyText == [ fence |-> "none", payload |-> "" ]

\* A response body: does it parse as JSON, its error.status, and the text at
\* candidates[0].content.parts[0].text
Body(p, es, ht, t) == [ parses |-> p, errorStatus |-> es, hasText |-> ht, text |-> t ]
NonJsonBody == Body(FALSE, "none", FALSE, EmptyText)
EmptyObjBody == Body(TRUE, "none", FALSE, EmptyText)
ErrBody(es) == Body(TRUE, es, FALSE, EmptyText)
TextBody(t) == Body(TRUE, "none", TRUE, t)

ErrBodies == { NonJsonBody, ErrBody("UNAVAILABLE"), ErrBody("INTERNAL") }
OkBodies == { NonJsonBody, EmptyObjBody, TextBody(EmptyText) } \cup { TextBody(t) : t \in Texts }

Statuses == { 200, 500, 503 }

Rejected == [ kind |-> "reject", status |-> 0, body |-> NonJsonBody ]
Http(s, b) == [ kind |-> "http", status |-> s, body |-> b ]

\* Response.ok
ResOk(r) == r.status \in 200..299

Responses ==
    { Rejected }
    \cup { Http(s, b) : s \in { x \in Statuses : x \notin 200..299 }, b \in ErrBodies }
    \cup { Http(s, b) : s \in { x \in Statuses : x \in 200..299 }, b \in OkBodies }

----------------------------------------------------------------------------
(* Messages (the strings held by lastError and error) *)

Msg(pf, k, m, s, b) == [ prefix |-> pf, kind |-> k, model |-> m, status |-> s, body |-> b ]
NoMsg == Msg("", "null", "", 0, NonJsonBody)

\* `Model ${currentModel} is overloaded.`
OverloadedMsg(m) == Msg("", "overloaded", m, 0, NonJsonBody)
\* `Gemini error: ${res.status} ${txt}`
GeminiErrorMsg(s, b) == Msg("", "gemini", "", s, b)
\* the SyntaxError JSON.parse / res.json() throws
SyntaxErrorMsg == Msg("", "syntax", "", 0, NonJsonBody)
\* the ZodError a schema's parse throws
ZodErrorMsg == Msg("", "zod", "", 0, NonJsonBody)
\* the TypeError a rejected fetch throws
NetworkErrorMsg == Msg("", "network", "", 0, NonJsonBody)
\* "No content returned by model"
NoContentMsg == Msg("", "nocontent", "", 0, NonJsonBody)
\* "Model is currently overloaded. Please try a different model or try again later."
FixerOverloadedMsg == Msg("", "fixerOverloaded", "", 0, NonJsonBody)
\* `Gemini fixer error: ${res.status} ${txt}`
FixerErrorMsg(s, b) == Msg("", "fixer", "", s, b)
\* "No fixer content returned by model"
NoFixerContentMsg == Msg("", "nofixer", "", 0, NonJsonBody)
\* `Generation returned invalid JSON and auto-fix failed: ${fixErr.message}`
AutoFixFailedMsg(inner) == [ inner EXCEPT !.prefix = "autofix" ]

\* the error state: [kind, last]
NoError == [ kind |-> "null", last |-> NoMsg ]
MissingKeyError == [ kind |-> "missingKey", last |-> NoMsg ]
EmptyPromptError == [ kind |-> "emptyPrompt", last |-> NoMsg ]
\* `All Gemini models are currently overloaded. ... Last error: ${lastError}`
AllFailedError(le) == [ kind |-> "allFailed", last |-> le ]

----------------------------------------------------------------------------
(* Pure functions *)

\* strips a leading ```json / ``` fence and a trailing ``` fence, then trims
cleanToJson(t) == [ fence |-> "none", payload |-> t.payload ]

\* JSON.parse(text) returns (TRUE) or throws a SyntaxError (FALSE)
JsonParses(t) == t.fence = "none" /\ t.payload \in { "site", "website", "react" }

\* the schema handleGenerate applies for a generation type
SchemaFor(g) ==
    IF g = "preview" THEN "site" ELSE IF g = "react-vite" THEN "react" ELSE "website"

\* Schema.parse(JSON.parse(text)) returns (TRUE) or throws (FALSE)
ParseOk(g, t) == JsonParses(t) /\ t.payload = SchemaFor(g)

\* variant: the repaired text is always checked against SiteSchema
FixParseOkSiteOnly(g, t) == ParseOk("preview", t)

\* lines 448-460: the repaired text goes through JSON.parse and the schema of
\* the generation type, as the original did at lines 418-430
FixParseOk(g, t) == ParseOk(g, t)

\* the message of what Schema.parse(JSON.parse(text)) throws
ParseErrorMsg(t) == IF JsonParses(t) THEN ZodErrorMsg ELSE SyntaxErrorMsg

NoResult == [ value |-> "null" ]
Parsed(t) == [ value |-> t.payload ]

\* variant: only an absent text is refused, an empty one passes
TextMissingUndefinedOnly(b) == ~b.hasText

\* !text at line 412 / 162
TextMissing(b) == ~b.hasText \/ b.text = EmptyText

\* variant: the status code alone decides
IsOverloadedStatusOnly(r) == r.status = 503

\* res.status === 503 && errorData?.error?.status === "UNAVAILABLE"
IsOverloaded(r) == r.status = 503 /\ r.body.errorStatus = "UNAVAILABLE"

\* How the code of lines 371-415 disposes of a primary response:
\*   "transient"  the 503/UNAVAILABLE branch of line 397
\*   "hard"       an exception caught at line 470
\*   "text"       a text payload reached line 414
ClassifyPrimary(r) ==
    IF r.kind = "reject" THEN "hard"
    ELSE IF ~ResOk(r)
         THEN IF ~r.body.parses THEN "hard"
              ELSE IF IsOverloaded(r) THEN "transient" ELSE "hard"
         ELSE IF ~r.body.parses THEN "hard"
              ELSE IF TextMissing(r.body) THEN "hard" ELSE "text"

\* the value lastError receives for a primary response that is not "text"
PrimaryErrorMsg(r, m) ==
    IF r.kind = "reject" THEN NetworkErrorMsg
    ELSE IF ~ResOk(r)
         THEN IF ~r.body.parses THEN SyntaxErrorMsg
              ELSE IF IsOverloaded(r) THEN OverloadedMsg(m)
              ELSE GeminiErrorMsg(r.status, r.body)
         ELSE IF ~r.body.parses THEN SyntaxErrorMsg ELSE NoContentMsg

\* attemptAutoFix: TRUE when it returns a text, FALSE when it throws
FixReturns(r) ==
    r.kind = "http" /\ ResOk(r) /\ r.body.parses /\ ~TextMissing(r.body)

\* the message of the exception the repair branch (lines 441-461) ends with
FixErrorMsg(r) ==
    IF r.kind = "reject" THEN NetworkErrorMsg
    ELSE IF ~ResOk(r)
         THEN IF ~r.body.parses THEN SyntaxErrorMsg
              ELSE IF IsOverloaded(r) THEN FixerOverloadedMsg
              ELSE FixerErrorMsg(r.status, r.body)
         ELSE IF ~r.body.parses THEN SyntaxErrorMsg
              ELSE IF TextMissing(r.body) THEN NoFixerContentMsg
              ELSE ParseErrorMsg(cleanToJson(r.body.text))

----------------------------------------------------------------------------
(* Control flow of the retry loop *)

\* variant: an overloaded model is left at once
AfterOverloadedNoRetry(a) == "break"

\* lines 399-402: after a 503/UNAVAILABLE answer
AfterOverloaded(a) == IF a < maxRetries THEN "continue" ELSE "break"

\* variant: a failed repair gives the model up
AfterFixFailureBreak(a) == "break"

\* lines 464-467: after the repair branch threw
AfterFixFailure(a) == IF a < maxRetries THEN "continue" ELSE "break"

\* variant: the exception is rethrown to the outer catch
AfterModelErrorThrow(a) == "throw"

\* lines 472-475: after any other exception of the attempt
AfterModelError(a) == IF a < maxRetries THEN "continue" ELSE "break"

\* variant: the call is not awaited, the code goes on while it is in flight
AwaitedNot(reqs, rq) == reqs

\* the requests still in flight once the awaited request rq has settled
Awaited(reqs, rq) == reqs \ { rq }

\* generationConfig.temperature, in tenths: 0.7 for the primary call (line 386),
\* 0 for attemptAutoFix (line 144)
PrimaryTemperature == 7
FixerTemperature == 0

\* line 387: maxOutputTokens of the primary call
PrimaryMaxOutputTokens(g) ==
    IF g = "react-vite" THEN 8000 ELSE IF g = "fullstack" THEN 6000 ELSE 800

\* variant: the repair call is given the budget of the primary call
RepairMaxOutputTokensSame(g) == PrimaryMaxOutputTokens(g)

\* line 446: maxOutputTokens handleGenerate passes to attemptAutoFix
RepairMaxOutputTokens(g) ==
    IF g = "react-vite" THEN 4000 ELSE IF g = "fullstack" THEN 3000 ELSE 600

\* line 505: maxOutputTokens handleManualFix passes to attemptAutoFix
ManualFixMaxOutputTokens(g) ==
    IF g = "react-vite" THEN 4000 ELSE IF g = "fullstack" THEN 3000 ELSE 600

\* The parts a prompt is assembled from
CtxSchema(g) == [ part |-> "schema", schema |-> SchemaFor(g), text |-> NoText, msg |-> NoMsg ]
CtxBadText(t) == [ part |-> "badText", schema |-> "", text |-> t, msg |-> NoMsg ]

\* lines 343-349: the system instruction of the primary call embeds the schema
\* description of the generation type
PrimaryPrompt(g) == { CtxSchema(g) }

\* lines 124-130: fixerPrompt is built from schemaDescription and badText
FixerPrompt(g, t) == { CtxSchema(g), CtxBadText(t) }

\* a request on the wire; id numbers the requests of one invocation
PrimaryRequest(m, g, n) ==
    [ call |-> "primary", model |-> m, badText |-> NoText, id |-> n,
      temperature |-> PrimaryTemperature,
      maxOutputTokens |-> PrimaryMaxOutputTokens(g),
      context |-> PrimaryPrompt(g) ]
\* attemptAutoFix's request (lines 132-147) as handleGenerate calls it (441-447)
RepairRequest(m, g, t, n) ==
    [ call |-> "repair", model |-> m, badText |-> t, id |-> n,
      temperature |-> FixerTemperature,
      maxOutputTokens |-> RepairMaxOutputTokens(g),
      context |-> FixerPrompt(g, t) ]
\* attemptAutoFix's request as handleManualFix calls it (lines 500-506)
ManualFixRequest(m, g, t, n) ==
    [ call |-> "repair", model |-> m, badText |-> t, id |-> n,
      temperature |-> FixerTemperature,
      maxOutputTokens |-> ManualFixMaxOutputTokens(g),
      context |-> FixerPrompt(g, t) ]

\* the request the invocation is awaiting: the one it issued last
Pending == CHOOSE rq \in inFlight : \A o \in inFlight : o.id <= rq.id

LogEntry(list, i, a) == [ model |-> list[i], mi |-> i, attempt |-> a ]

\* line 371: fetch(...) is called and awaited; reqs are the requests in flight
IssuePrimary(list, i, a, reqs) ==
    /\ pc' = "fetch"
    /\ mi' = i
    /\ attempt' = a
    /\ inFlight' = reqs \cup { PrimaryRequest(list[i], typeAtStart, Len(primaryLog) + repairCount + 1) }
    /\ primaryLog' = Append(primaryLog, LogEntry(list, i, a))

\* variant: the same delay before every retry
BackoffDelayFixed(a) == 1000 * 1

\* line 368: sleep(1000 * attempt)
BackoffDelay(a) == 1000 * a

\* lines 364-371: the body of one iteration up to its first await
StartIteration(i, a, reqs) ==
    IF a > 0
    THEN /\ pc' = "sleep"
         /\ mi' = i
         /\ attempt' = a
         /\ sleepLog' = Append(sleepLog, BackoffDelay(a))
         /\ inFlight' = reqs
         /\ UNCHANGED << primaryLog, loading, error, modelsToTry, typeAtStart >>
    ELSE /\ IssuePrimary(modelsToTry, i, a, reqs)
         /\ UNCHANGED << sleepLog, loading, error, modelsToTry, typeAtStart >>

\* variant: setLoading(false) is the last statement of the try block, which a
\* throw skips
LoadingAfterNoFinally(thrown) == thrown

\* lines 486-488: finally { setLoading(false) }, after a return and after the
\* catch alike
LoadingAfter(thrown) == FALSE

\* variant: a try without catch, the exception leaves handleGenerate
OuterCatchMissing(e) == NoError

\* lines 482-484: catch (e) { setError(e.message || ...) }, the value error gets
OuterCatch(e) == e

\* lines 482-487: the outer catch and finally; the invocation's locals die
Settle(e, reqs) ==
    /\ pc' = "done"
    /\ error' = OuterCatch(e)
    /\ loading' = LoadingAfter(TRUE)
    /\ inFlight' = reqs
    /\ modelsToTry' = << >>
    /\ mi' = 0
    /\ attempt' = 0
    /\ typeAtStart' = "none"
    /\ UNCHANGED << primaryLog, sleepLog >>

\* line 363: the outer loop moves to the next candidate, or ends (line 481)
NextModel(le, reqs) ==
    IF mi + 1 <= Len(modelsToTry)
    THEN /\ StartIteration(mi + 1, 0, reqs)
         /\ lastError' = le
    ELSE /\ Settle(AllFailedError(le), reqs)
         /\ lastError' = NoMsg

\* continue / break / throw inside the inner loop, with lastError = le
Proceed(d, le, reqs) ==
    CASE d = "continue" ->
            IF attempt + 1 <= maxRetries
            THEN /\ StartIteration(mi, attempt + 1, reqs)
                 /\ lastError' = le
            ELSE NextModel(le, reqs)
      [] d = "break" -> NextModel(le, reqs)
      [] OTHER -> /\ Settle([ kind |-> "thrown", last |-> le ], reqs)
                  /\ lastError' = NoMsg

\* variant: the value is stored but the return is missing, the loop goes on
StoreAndContinue(t, reqs) ==
    /\ site' = IF typeAtStart = "preview" THEN Parsed(t) ELSE site
    /\ reactProject' = IF typeAtStart = "react-vite" THEN Parsed(t) ELSE reactProject
    /\ website' = IF typeAtStart \notin { "preview", "react-vite" } THEN Parsed(t) ELSE website
    /\ Proceed("continue", lastError, reqs)

\* variant: the setter is chosen by the type selected when the response arrives
StoreAndReturnCurrentType(t, reqs) ==
    /\ site' = IF generationType = "preview" THEN Parsed(t) ELSE site
    /\ reactProject' = IF generationType = "react-vite" THEN Parsed(t) ELSE reactProject
    /\ website' = IF generationType \notin { "preview", "react-vite" } THEN Parsed(t) ELSE website
    /\ pc' = "done"
    /\ loading' = FALSE
    /\ inFlight' = reqs
    /\ modelsToTry' = << >>
    /\ mi' = 0
    /\ attempt' = 0
    /\ lastError' = NoMsg
    /\ typeAtStart' = "none"
    /\ UNCHANGED << error, primaryLog, sleepLog >>

\* lines 418-431 / 448-461: store the parsed value and return (finally runs)
StoreAndReturn(t, reqs) ==
    /\ site' = IF typeAtStart = "preview" THEN Parsed(t) ELSE site
    /\ reactProject' = IF typeAtStart = "react-vite" THEN Parsed(t) ELSE reactProject
    /\ website' = IF typeAtStart \notin { "preview", "react-vite" } THEN Parsed(t) ELSE website
    /\ pc' = "done"
    /\ loading' = LoadingAfter(FALSE)
    /\ inFlight' = reqs
    /\ modelsToTry' = << >>
    /\ mi' = 0
    /\ attempt' = 0
    /\ lastError' = NoMsg
    /\ typeAtStart' = "none"
    /\ UNCHANGED << error, primaryLog, sleepLog >>

----------------------------------------------------------------------------
(* Initial state: the state after the component's construction *)

Init ==
    /\ apiKey = ""
    /\ model = DEFAULT_MODEL
    /\ prompt = DefaultPrompt
    /\ generationType = "preview"
    /\ loading = FALSE
    /\ error = NoError
    /\ site = NoResult
    /\ website = NoResult
    /\ reactProject = NoResult
    /\ lastRawText = NoText
    /\ fixing = FALSE
    /\ typeAtStart = "none"
    /\ pc = "idle"
    /\ modelsToTry = << >>
    /\ mi = 0
    /\ attempt = 0
    /\ lastError = NoMsg
    /\ inFlight = {}
    /\ primaryLog = << >>
    /\ repairCount = 0
    /\ sleepLog = << >>
    /\ allTransient = TRUE
    /\ exportOp = "none"
    /\ exportIn = << >>
    /\ exportOut = << >>
    /\ exportArg = << >>

invVars == << loading, error, site, website, reactProject, lastRawText,
              pc, modelsToTry, mi, attempt, lastError, inFlight, primaryLog,
              repairCount, sleepLog, allTransient, exportVars, fixing,
              typeAtStart >>

----------------------------------------------------------------------------
(* The user's inputs (the form is edited between generations) *)

Settled == pc \in { "idle", "done" }

SetApiKey(k) ==
    /\ Settled
    /\ apiKey' = k
    /\ UNCHANGED << model, prompt, generationType >>
    /\ UNCHANGED invVars

SetModel(m) ==
    /\ Settled
    /\ model' = m
    /\ UNCHANGED << apiKey, prompt, generationType >>
    /\ UNCHANGED invVars

SetPrompt(p) ==
    /\ Settled
    /\ prompt' = p
    /\ UNCHANGED << apiKey, model, generationType >>
    /\ UNCHANGED invVars

SetGenerationType(g) ==
    /\ Settled
    /\ generationType' = g
    /\ UNCHANGED << apiKey, model, prompt >>
    /\ UNCHANGED invVars

----------------------------------------------------------------------------
(* handleGenerate *)

\* variant: the buttons stay enabled while a generation runs
GenerateDisabledNever == FALSE

\* lines 615 and 646: disabled={loading} on the two buttons that call
\* handleGenerate
GenerateDisabled == loading

\* variant: the results of the previous generation are left in place
ClearResultsNot == UNCHANGED << site, website, reactProject >>

\* lines 330-332: setSite(null); setWebsite(null); setReactProject(null)
ClearResults ==
    /\ site' = NoResult
    /\ website' = NoResult
    /\ reactProject' = NoResult

\* variant: the prompt is tested as typed
PromptMissingNoTrim(p) == p = ""

\* line 339: if (!prompt.trim())
PromptMissing(p) == Trim(p) = ""

\* lines 326-391: the click on Generate, up to the first await
HandleGenerate ==
    /\ ~GenerateDisabled
    /\ ClearResults
    /\ lastRawText' = NoText
    /\ lastError' = NoMsg
    /\ repairCount' = 0
    /\ sleepLog' = << >>
    /\ allTransient' = TRUE
    /\ UNCHANGED << uiVars, exportVars, fixing >>
    /\ IF apiKey = ""
       THEN /\ error' = OuterCatch(MissingKeyError)
            /\ loading' = LoadingAfter(TRUE)
            /\ pc' = "done"
            /\ modelsToTry' = << >>
            /\ mi' = 0
            /\ attempt' = 0
            /\ inFlight' = {}
            /\ primaryLog' = << >>
            /\ typeAtStart' = "none"
       ELSE IF PromptMissing(prompt)
       THEN /\ error' = OuterCatch(EmptyPromptError)
            /\ loading' = LoadingAfter(TRUE)
            /\ pc' = "done"
            /\ modelsToTry' = << >>
            /\ mi' = 0
            /\ attempt' = 0
            /\ inFlight' = {}
            /\ primaryLog' = << >>
            /\ typeAtStart' = "none"
       ELSE /\ error' = NoError
            /\ loading' = TRUE
            /\ modelsToTry' = BuildModelsToTry(model)
            /\ pc' = "fetch"
            /\ mi' = 1
            /\ attempt' = 0
            /\ inFlight' = { PrimaryRequest(BuildModelsToTry(model)[1], generationType, 1) }
            /\ primaryLog' = << LogEntry(BuildModelsToTry(model), 1, 0) >>
            /\ typeAtStart' = generationType

\* line 368: the backoff timer fires, and line 371 issues the request
TimerFires ==
    /\ pc = "sleep"
    /\ IssuePrimary(modelsToTry, mi, attempt, inFlight)
    /\ UNCHANGED << uiVars, loading, error, site, website, reactProject, lastRawText,
                    modelsToTry, lastError, repairCount, sleepLog,
                    allTransient, exportVars, fixing, typeAtStart >>

\* lines 371-447: the awaited fetch settles with response r, which is read,
\* classified, parsed and validated
PrimaryResponse(r) ==
    /\ pc = "fetch"
    /\ UNCHANGED << uiVars, exportVars, fixing >>
    /\ LET c == ClassifyPrimary(r)
           text == r.body.text
           reqs == Awaited(inFlight, Pending)
       IN CASE c = "transient" ->
                 /\ Proceed(AfterOverloaded(attempt), PrimaryErrorMsg(r, modelsToTry[mi]), reqs)
                 /\ UNCHANGED << site, website, reactProject, lastRawText,
                                 repairCount, allTransient >>
            [] c = "hard" ->
                 /\ Proceed(AfterModelError(attempt), PrimaryErrorMsg(r, modelsToTry[mi]), reqs)
                 /\ allTransient' = FALSE
                 /\ UNCHANGED << site, website, reactProject, lastRawText,
                                 repairCount >>
            [] OTHER ->
                 /\ lastRawText' = text
                 /\ allTransient' = FALSE
                 /\ IF ParseOk(typeAtStart, cleanToJson(text))
                    THEN /\ StoreAndReturn(cleanToJson(text), reqs)
                         /\ UNCHANGED repairCount
                    ELSE \* attemptAutoFix is called: its fetch (line 132) is awaited
                         /\ pc' = "fix"
                         /\ inFlight' = reqs \cup { RepairRequest(modelsToTry[mi], typeAtStart,
                                                                  cleanToJson(text),
                                                                  Len(primaryLog) + repairCount + 1) }
                         /\ repairCount' = repairCount + 1
                         /\ UNCHANGED << site, website, reactProject, loading,
                                         error, lastError, modelsToTry, mi, attempt,
                                         primaryLog, sleepLog, typeAtStart >>

\* variant: the repaired text is kept as the raw text
RawTextAfterFixRepaired(raw, r) == IF FixReturns(r) THEN cleanToJson(r.body.text) ELSE raw

\* lines 440-468: the repair branch has no setLastRawText
RawTextAfterFix(raw, r) == raw

\* lines 132-163 and 448-468: the repair call's fetch settles with response r,
\* which is read, parsed and validated
FixResponse(r) ==
    /\ pc = "fix"
    /\ lastRawText' = RawTextAfterFix(lastRawText, r)
    /\ UNCHANGED << uiVars, repairCount, allTransient, exportVars, fixing >>
    /\ LET reqs == Awaited(inFlight, Pending)
       IN IF FixReturns(r) /\ FixParseOk(typeAtStart, cleanToJson(r.body.text))
          THEN StoreAndReturn(cleanToJson(r.body.text), reqs)
          ELSE /\ Proceed(AfterFixFailure(attempt),
                          AutoFixFailedMsg(FixErrorMsg(r)), reqs)
               /\ UNCHANGED << site, website, reactProject >>

----------------------------------------------------------------------------

Next ==
    \/ \E k \in ApiKeys : SetApiKey(k)
    \/ \E m \in ModelChoices : SetModel(m)
    \/ \E p \in Prompts : SetPrompt(p)
    \/ \E g \in GenerationTypes : SetGenerationType(g)
    \/ HandleGenerate
    \/ TimerFires
    \/ \E r \in Responses : PrimaryResponse(r)
    \/ \E r \in Responses : FixResponse(r)

Spec == Init /\ [][Next]_vars

\* the steps of a running invocation: each happens once the network call or
\* the timer it awaits completes
Step ==
    \/ TimerFires
    \/ \E r \in Responses : PrimaryResponse(r)
    \/ \E r \in Responses : FixResponse(r)

LiveSpec == Init /\ [][Next]_vars /\ WF_vars(Step)

----------------------------------------------------------------------------
(* The generation type is changed while a generation runs *)

\* line 582: the type Select is enabled while loading; the running handler
\* keeps the value it closed over
ChangeTypeInFlight(g) ==
    /\ pc \in { "fetch", "sleep", "fix" }
    /\ generationType' = g
    /\ UNCHANGED << apiKey, model, prompt >>
    /\ UNCHANGED invVars

\* the form as in Next, the type Select being used while a generation runs
FlightNext ==
    \/ \E k \in ApiKeys : SetApiKey(k)
    \/ \E m \in ModelChoices : SetModel(m)
    \/ \E p \in Prompts : SetPrompt(p)
    \/ \E g \in GenerationTypes : ChangeTypeInFlight(g)
    \/ HandleGenerate
    \/ TimerFires
    \/ \E r \in Responses : PrimaryResponse(r)
    \/ \E r \in Responses : FixResponse(r)

FlightSpec == Init /\ [][FlightNext]_vars

----------------------------------------------------------------------------
(* handleManualFix *)

\* `Manual fix failed: ${err?.message || "unknown error"}`
ManualFixFailedMsg(inner) == [ inner EXCEPT !.prefix = "manualfix" ]
ManualFixError(inner) == [ kind |-> "manualFix", last |-> ManualFixFailedMsg(inner) ]

\* variant: the early return looks at the API key only
ManualFixSkippedKeyOnly == apiKey = ""

\* line 491: if (!apiKey || !lastRawText) return
ManualFixSkipped == apiKey = "" \/ lastRawText = NoText \/ lastRawText = EmptyText

\* variant: the repair is sent to the default model
ManualFixModelDefault == DEFAULT_MODEL

\* line 502: model, the user's selection
ManualFixModel == model

\* lines 490-506: the call of handleManualFix between two generations, up to
\* its await
HandleManualFix ==
    /\ pc \in { "idle", "done" }
    /\ ~fixing
    /\ IF ManualFixSkipped
       THEN UNCHANGED vars
       ELSE /\ fixing' = TRUE
            /\ error' = NoError
            /\ pc' = "manualfix"
            /\ typeAtStart' = generationType
            /\ inFlight' = { ManualFixRequest(ManualFixModel, generationType, lastRawText, 1) }
            \* the history kept is that of the running handler
            /\ primaryLog' = << >>
            /\ repairCount' = 0
            /\ sleepLog' = << >>
            /\ allTransient' = TRUE
            /\ UNCHANGED << uiVars, loading, site, website, reactProject, lastRawText,
                            modelsToTry, mi, attempt, lastError, exportVars >>

\* variant: setFixing(false) only after a successful repair
FixingAfterSuccessOnly(ok) == ~ok

\* lines 523-525: finally { setFixing(false) }
FixingAfter(ok) == FALSE

\* lines 132-163 and 507-525: the repair call's fetch settles with response r
ManualFixResponse(r) ==
    /\ pc = "manualfix"
    /\ LET ok == FixReturns(r) /\ ParseOk(typeAtStart, cleanToJson(r.body.text))
           t == cleanToJson(r.body.text)
       IN /\ site' = IF ok /\ typeAtStart = "preview" THEN Parsed(t) ELSE site
          /\ reactProject' = IF ok /\ typeAtStart = "react-vite" THEN Parsed(t) ELSE reactProject
          /\ website' = IF ok /\ typeAtStart \notin { "preview", "react-vite" }
                        THEN Parsed(t) ELSE website
          /\ error' = IF ok THEN error ELSE ManualFixError(FixErrorMsg(r))
          /\ fixing' = FixingAfter(ok)
    /\ pc' = "done"
    /\ typeAtStart' = "none"
    /\ inFlight' = Awaited(inFlight, Pending)
    /\ UNCHANGED << uiVars, loading, lastRawText, modelsToTry, mi, attempt, lastError,
                    primaryLog, repairCount, sleepLog, allTransient, exportVars >>

\* the repair is let finish before the next click on Generate
FixNext ==
    \/ \E k \in ApiKeys : SetApiKey(k)
    \/ \E m \in ModelChoices : SetModel(m)
    \/ \E g \in GenerationTypes : SetGenerationType(g)
    \/ ~fixing /\ HandleGenerate
    \/ TimerFires
    \/ \E r \in Responses : PrimaryResponse(r)
    \/ \E r \in Responses : FixResponse(r)
    \/ HandleManualFix
    \/ \E r \in Responses : ManualFixResponse(r)

FixSpec == Init /\ [][FixNext]_vars

----------------------------------------------------------------------------
(* JSON values and JSON text.                                                *)
(* A text is a sequence of tokens: every character that matters to the       *)
(* fence regexes, to JSON's grammar or to HTML is a token of its own, and a  *)
(* run of ordinary characters (a word) is one token.  A string value holds   *)
(* its content as such a sequence, and so does an object key.                *)

\* a JavaScript value as JSON.parse builds it: t is its type, s the content
\* of a string, number or literal, a the elements of an array or the entries
\* of an object in insertion order; an entry has the key k and a = << value >>
Value(t, k, s, a) == [ t |-> t, k |-> k, s |-> s, a |-> a ]
Str(s) == Value("string", << >>, s, << >>)
Num(s) == Value("number", << >>, s, << >>)
Bool(s) == Value("boolean", << >>, s, << >>)
Null == Value("null", << >>, << "null" >>, << >>)
Arr(items) == Value("array", << >>, << >>, items)
Entry(k, v) == Value("entry", k, << >>, << v >>)
Obj(entries) == Value("object", << >>, << >>, entries)
\* undefined: what reading an absent property gives
Undefined == Value("undefined", << >>, << >>, << >>)

Key(name) == << name >>

\* key in obj
Has(obj, k) == \E i \in 1..Len(obj.a) : obj.a[i].k = k

\* obj[key]
Get(obj, k) ==
    IF obj.t = "object" /\ Has(obj, k)
    THEN obj.a[CHOOSE i \in 1..Len(obj.a) : obj.a[i].k = k].a[1]
    ELSE Undefined

\* obj[key] = v: a new key is appended, an existing one keeps its position
Put(entries, k, v) ==
    IF \E i \in 1..Len(entries) : entries[i].k = k
    THEN [ i \in 1..Len(entries) |-> IF entries[i].k = k THEN Entry(k, v) ELSE entries[i] ]
    ELSE Append(entries, Entry(k, v))

IsWhitespace(tok) == tok \in { " ", "  ", "\n", "\t", "\r" }

\* ---- JSON.parse ----

\* the result of a parsing step: ok, the value read, the index after it
Read(v, i) == [ ok |-> TRUE, v |-> v, i |-> i ]
NoRead == [ ok |-> FALSE, v |-> Undefined, i |-> 0 ]

RECURSIVE SkipWhitespace(_, _)
SkipWhitespace(text, i) ==
    IF i <= Len(text) /\ IsWhitespace(text[i]) THEN SkipWhitespace(text, i + 1) ELSE i

\* the characters of a string literal from index i up to its closing quote;
\* a backslash escapes the quote, the backslash and the slash, \n is a line
\* feed, and a raw control character ends the parse
RECURSIVE ReadString(_, _, _)
ReadString(text, i, acc) ==
    IF i > Len(text) THEN NoRead
    ELSE IF text[i] = "\"" THEN Read(Str(acc), i + 1)
    ELSE IF text[i] \in { "\n", "\t", "\r" } THEN NoRead
    ELSE IF text[i] = "\\"
         THEN IF i + 1 > Len(text) THEN NoRead
              ELSE IF text[i + 1] \in { "\"", "\\", "/" }
                   THEN ReadString(text, i + 2, Append(acc, text[i + 1]))
              ELSE IF text[i + 1] = "n" THEN ReadString(text, i + 2, Append(acc, "\n"))
              ELSE NoRead
    ELSE ReadString(text, i + 1, Append(acc, text[i]))

RECURSIVE ReadValue(_, _)
RECURSIVE ReadElements(_, _, _, _)
RECURSIVE ReadMembers(_, _, _, _)

\* the elements of an array after "[" or after a comma; closing is accepted
\* after an element, and right after "[" (first), never after a comma
ReadElements(text, i, acc, first) ==
    LET j == SkipWhitespace(text, i)
    IN IF j > Len(text) THEN NoRead
       ELSE IF first /\ text[j] = "]" THEN Read(Arr(acc), j + 1)
       ELSE LET e == ReadValue(text, j)
                n == SkipWhitespace(text, e.i)
            IN IF ~e.ok \/ n > Len(text) THEN NoRead
               ELSE IF text[n] = "," THEN ReadElements(text, n + 1, Append(acc, e.v), FALSE)
               ELSE IF text[n] = "]" THEN Read(Arr(Append(acc, e.v)), n + 1)
               ELSE NoRead

\* the members of an object after "{" or after a comma
ReadMembers(text, i, acc, first) ==
    LET j == SkipWhitespace(text, i)
    IN IF j > Len(text) THEN NoRead
       ELSE IF first /\ text[j] = "}" THEN Read(Obj(acc), j + 1)
       ELSE IF text[j] # "\"" THEN NoRead
       ELSE LET key == ReadString(text, j + 1, << >>)
                c == SkipWhitespace(text, key.i)
            IN IF ~key.ok \/ c > Len(text) THEN NoRead
               ELSE IF text[c] # ":" THEN NoRead
               ELSE LET e == ReadValue(text, c + 1)
                        n == SkipWhitespace(text, e.i)
                    IN IF ~e.ok \/ n > Len(text) THEN NoRead
                       ELSE IF text[n] = ","
                            THEN ReadMembers(text, n + 1, Put(acc, key.v.s, e.v), FALSE)
                       ELSE IF text[n] = "}"
                            THEN Read(Obj(Put(acc, key.v.s, e.v)), n + 1)
                       ELSE NoRead

ReadValue(text, i) ==
    LET j == SkipWhitespace(text, i)
    IN IF j > Len(text) THEN NoRead
       ELSE CASE text[j] = "{" -> ReadMembers(text, j + 1, << >>, TRUE)
              [] text[j] = "[" -> ReadElements(text, j + 1, << >>, TRUE)
              [] text[j] = "\"" -> ReadString(text, j + 1, << >>)
              [] text[j] \in { "true", "false" } -> Read(Bool(<< text[j] >>), j + 1)
              [] text[j] = "null" -> Read(Null, j + 1)
              [] text[j] \in { "0", "1", "7" } -> Read(Num(<< text[j] >>), j + 1)
              [] OTHER -> NoRead

\* the number of backslashes in a row that end at token j
RECURSIVE BackslashRun(_, _)
BackslashRun(text, j) ==
    IF j >= 1 /\ text[j] = "\\" THEN 1 + BackslashRun(text, j - 1) ELSE 0

EveryPlace(j) == TRUE

\* the first token from i on that is one of toks and fits the test, 0 when
\* there is none
FirstAt(text, i, toks, Fits(_)) ==
    IF \E j \in i..Len(text) : text[j] \in toks /\ Fits(j)
    THEN CHOOSE j \in i..Len(text) :
            /\ text[j] \in toks /\ Fits(j)
            /\ \A k \in i..(j - 1) : ~(text[k] \in toks /\ Fits(k))
    ELSE 0

\* the quote that closes the string literal whose content starts at token i,
\* 0 when it is not closed
StringEnd(text, i) ==
    LET Unescaped(j) == BackslashRun(text, j - 1) % 2 = 0
    IN FirstAt(text, i, { "\"" }, Unescaped)

\* the commas from token i on that stand, white space apart, right before a
\* closing brace or bracket, those inside string literals left out
RECURSIVE TrailingCommas(_, _)
TrailingCommas(text, i) ==
    LET quote == FirstAt(text, i, { "\"" }, EveryPlace)
        close == IF quote = 0 THEN 0 ELSE StringEnd(text, quote + 1)
        here == { k \in i..(IF quote = 0 THEN Len(text) ELSE quote - 1) :
                    /\ text[k] = ","
                    /\ SkipWhitespace(text, k + 1) <= Len(text)
                    /\ text[SkipWhitespace(text, k + 1)] \in { "}", "]" } }
    IN IF close = 0 THEN here ELSE here \cup TrailingCommas(text, close + 1)

\* the text from token i on without the tokens at the places in drops
RECURSIVE Without(_, _, _)
Without(text, i, drops) ==
    IF drops = {} THEN SubSeq(text, i, Len(text))
    ELSE LET d == CHOOSE d \in drops : \A e \in drops : d <= e
         IN SubSeq(text, i, d - 1) \o Without(text, d + 1, drops \ { d })

\* the text without its trailing commas
StripTrailingCommas(text) == Without(text, 1, TrailingCommas(text, 1))

\* variant: trailing commas are taken out before the strict parse
JsonParseAfterCommaStrip(text) ==
    LET stripped == StripTrailingCommas(text)
        r == ReadValue(stripped, 1)
    IN IF r.ok /\ SkipWhitespace(stripped, r.i) > Len(stripped)
       THEN [ ok |-> TRUE, v |-> r.v ]
       ELSE [ ok |-> FALSE, v |-> Undefined ]

\* JSON.parse(text): ok and the value, or a SyntaxError (ok FALSE)
JsonParse(text) ==
    LET r == ReadValue(text, 1)
    IN IF r.ok /\ SkipWhitespace(text, r.i) > Len(text)
       THEN [ ok |-> TRUE, v |-> r.v ]
       ELSE [ ok |-> FALSE, v |-> Undefined ]

\* ---- writing JSON text ----

\* a string's characters inside a literal, escaped as JSON.stringify does when
\* esc, raw otherwise
RECURSIVE WriteChars(_, _)
WriteChars(s, esc) ==
    IF s = << >> THEN << >>
    ELSE (IF esc /\ Head(s) \in { "\"", "\\" } THEN << "\\", Head(s) >>
          ELSE IF esc /\ Head(s) = "\n" THEN << "\\", "n" >>
          ELSE << Head(s) >>) \o WriteChars(Tail(s), esc)

WriteString(s, esc) == << "\"" >> \o WriteChars(s, esc) \o << "\"" >>

\* the line break and indentation before an item at nesting depth d
RECURSIVE Indentation(_)
Indentation(d) == IF d = 0 THEN << >> ELSE << "  " >> \o Indentation(d - 1)
Break(style, d) == IF style.indent THEN << "\n" >> \o Indentation(d) ELSE << >>

\* a style of JSON text: indent (two spaces per level, a blank after the
\* colon), trailing (a comma after the last item too), esc (string escaping)
Style(indent, trailing, esc) == [ indent |-> indent, trailing |-> trailing, esc |-> esc ]

RECURSIVE WriteJson(_, _, _)
RECURSIVE WriteItems(_, _, _, _)

\* the items of an array or object, separated by commas, each on its own line
\* when indenting; an entry whose value is undefined is left out
WriteItems(items, style, d, first) ==
    IF items = << >> THEN (IF style.trailing /\ ~first THEN << "," >> ELSE << >>)
    ELSE LET it == Head(items)
         IN IF it.t = "entry" /\ it.a[1].t = "undefined"
            THEN WriteItems(Tail(items), style, d, first)
            ELSE (IF first THEN << >> ELSE << "," >>)
                 \o Break(style, d)
                 \o (IF it.t = "entry"
                     THEN WriteString(it.k, style.esc) \o << ":" >>
                          \o (IF style.indent THEN << " " >> ELSE << >>)
                          \o WriteJson(it.a[1], style, d)
                     ELSE WriteJson(it, style, d))
                 \o WriteItems(Tail(items), style, d, FALSE)

WriteJson(v, style, d) ==
    CASE v.t = "string" -> WriteString(v.s, style.esc)
      [] v.t = "array" ->
            LET inner == WriteItems(v.a, style, d + 1, TRUE)
            IN IF inner = << >> THEN << "[", "]" >>
               ELSE << "[" >> \o inner \o Break(style, d) \o << "]" >>
      [] v.t = "object" ->
            LET inner == WriteItems(v.a, style, d + 1, TRUE)
            IN IF inner = << >> THEN << "{", "}" >>
               ELSE << "{" >> \o inner \o Break(style, d) \o << "}" >>
      [] v.t = "undefined" -> << "null" >>
      [] OTHER -> v.s

\* variant: the characters of a string are written unescaped
JsonStringifyRaw(v, indent) == WriteJson(v, Style(indent > 0, FALSE, FALSE), 0)

\* JSON.stringify(v, null, indent), for indent 0 or 2
JsonStringify(v, indent) == WriteJson(v, Style(indent > 0, FALSE, TRUE), 0)

----------------------------------------------------------------------------
(* The schemas (zod) and their parse                                         *)

\* z.string(), z.boolean(), z.literal(s), z.enum([...]), z.array(e).min(n),
\* z.record(e), z.object({...}), x.optional(), z.discriminatedUnion(key, [...])
ZString == [ z |-> "string" ]
ZBoolean == [ z |-> "boolean" ]
ZLiteral(s) == [ z |-> "enum", values |-> { << s >> } ]
ZEnum(names) == [ z |-> "enum", values |-> { << n >> : n \in names } ]
ZArray(element, min) == [ z |-> "array", element |-> element, min |-> min ]
ZRecord(element) == [ z |-> "record", element |-> element ]
ZObject(shape) == [ z |-> "object", shape |-> shape ]
ZOptional(inner) == [ z |-> "optional", inner |-> inner ]
ZUnion(discriminator, options) ==
    [ z |-> "union", discriminator |-> Key(discriminator), options |-> options ]
\* one key of an object's shape
Field(name, schema) == [ k |-> Key(name), schema |-> schema ]

\* the result of a parse: the output value, or a ZodError (ok FALSE)
Valid(v) == [ ok |-> TRUE, v |-> v ]
Invalid == [ ok |-> FALSE, v |-> Undefined ]

RECURSIVE ZodParse(_, _)
RECURSIVE ParseElements(_, _, _)
RECURSIVE ParseShape(_, _, _)
RECURSIVE ParseRecord(_, _, _)

\* variant: an element that fails its schema is left out of the array
RECURSIVE ParseElementsDropInvalid(_, _, _)
ParseElementsDropInvalid(element, items, acc) ==
    IF items = << >> THEN Valid(Arr(acc))
    ELSE LET r == ZodParse(element, Head(items))
         IN ParseElementsDropInvalid(element, Tail(items),
                                     IF r.ok THEN Append(acc, r.v) ELSE acc)

\* every element of an array is parsed; one issue fails the array
ParseElements(element, items, acc) ==
    IF items = << >> THEN Valid(Arr(acc))
    ELSE LET r == ZodParse(element, Head(items))
         IN IF r.ok THEN ParseElements(element, Tail(items), Append(acc, r.v))
            ELSE Invalid

\* variant: every key of the shape is set in the output
KeepKeyAlways(present, v) == TRUE

\* a key of the shape is set in the output when the input has it or its
\* parsed value is not undefined
KeepKey(present, v) == present \/ v.t # "undefined"

\* the keys of the shape are parsed in the shape's order; the keys of the
\* input that the shape does not name are stripped
ParseShape(shape, input, acc) ==
    IF shape = << >> THEN Valid(Obj(acc))
    ELSE LET f == Head(shape)
             r == ZodParse(f.schema, Get(input, f.k))
         IN IF ~r.ok THEN Invalid
            ELSE ParseShape(Tail(shape), input,
                            IF KeepKey(Has(input, f.k), r.v)
                            THEN Append(acc, Entry(f.k, r.v)) ELSE acc)

\* every value of a record is parsed, the keys are kept
ParseRecord(element, entries, acc) ==
    IF entries = << >> THEN Valid(Obj(acc))
    ELSE LET r == ZodParse(element, Head(entries).a[1])
         IN IF r.ok THEN ParseRecord(element, Tail(entries),
                                     Append(acc, Entry(Head(entries).k, r.v)))
            ELSE Invalid

\* the option of a discriminated union whose literal is the value's tag
OptionFor(schema, tag) ==
    { i \in 1..Len(schema.options) :
        \E j \in 1..Len(schema.options[i].shape) :
            /\ schema.options[i].shape[j].k = schema.discriminator
            /\ tag.t = "string"
            /\ tag.s \in schema.options[i].shape[j].schema.values }

\* Schema.parse(v)
ZodParse(schema, v) ==
    CASE schema.z = "string" -> IF v.t = "string" THEN Valid(v) ELSE Invalid
      [] schema.z = "boolean" -> IF v.t = "boolean" THEN Valid(v) ELSE Invalid
      [] schema.z = "enum" ->
            IF v.t = "string" /\ v.s \in schema.values THEN Valid(v) ELSE Invalid
      [] schema.z = "optional" ->
            IF v.t = "undefined" THEN Valid(v) ELSE ZodParse(schema.inner, v)
      [] schema.z = "array" ->
            IF v.t = "array" /\ Len(v.a) >= schema.min
            THEN ParseElements(schema.element, v.a, << >>) ELSE Invalid
      [] schema.z = "record" ->
            IF v.t = "object" THEN ParseRecord(schema.element, v.a, << >>) ELSE Invalid
      [] schema.z = "object" ->
            IF v.t = "object" THEN ParseShape(schema.shape, v, << >>) ELSE Invalid
      [] schema.z = "union" ->
            IF v.t = "object" /\ OptionFor(schema, Get(v, schema.discriminator)) # {}
            THEN ZodParse(schema.options[CHOOSE i \in OptionFor(schema, Get(v, schema.discriminator)) : TRUE], v)
            ELSE Invalid

Themes == { "green", "light", "dark" }

\* SiteGenerator.tsx lines 26-55: the four section variants
SectionSchema ==
    ZUnion("type", <<
        ZObject(<< Field("type", ZLiteral("hero")),
                   Field("headline", ZString),
                   Field("subheadline", ZOptional(ZString)),
                   Field("ctaLabel", ZOptional(ZString)) >>),
        ZObject(<< Field("type", ZLiteral("features")),
                   Field("title", ZOptional(ZString)),
                   Field("items", ZArray(ZObject(<< Field("title", ZString),
                                                    Field("description", ZString),
                                                    Field("icon", ZOptional(ZString)) >>), 0)) >>),
        ZObject(<< Field("type", ZLiteral("testimonial")),
                   Field("quote", ZString),
                   Field("author", ZString) >>),
        ZObject(<< Field("type", ZLiteral("cta")),
                   Field("headline", ZString),
                   Field("ctaLabel", ZOptional(ZString)) >>) >>)

\* variant: theme is not optional
SiteSchemaThemeRequired ==
    ZObject(<< Field("title", ZString),
               Field("theme", ZEnum(Themes)),
               Field("sections", ZArray(SectionSchema, 1)) >>)

\* variant: .min(1) is missing
SiteSchemaNoMin ==
    ZObject(<< Field("title", ZString),
               Field("theme", ZOptional(ZEnum(Themes))),
               Field("sections", ZArray(SectionSchema, 0)) >>)

\* SiteGenerator.tsx lines 21-57
SiteSchema ==
    ZObject(<< Field("title", ZString),
               Field("theme", ZOptional(ZEnum(Themes))),
               Field("sections", ZArray(SectionSchema, 1)) >>)

\* SiteGenerator.tsx lines 59-79
WebsiteSchema ==
    ZObject(<< Field("title", ZString),
               Field("description", ZString),
               Field("theme", ZOptional(ZEnum(Themes))),
               Field("framework", ZOptional(ZString)),
               Field("files", ZObject(<<
                   Field("html", ZString),
                   Field("css", ZString),
                   Field("js", ZOptional(ZString)),
                   Field("nodejs", ZOptional(ZObject(<<
                       Field("packageJson", ZString),
                       Field("serverJs", ZString),
                       Field("routes", ZOptional(ZRecord(ZString))) >>))) >>)),
               Field("additionalFiles", ZOptional(ZRecord(ZString))),
               Field("features", ZArray(ZString, 0)),
               Field("responsive", ZBoolean),
               Field("interactive", ZBoolean) >>)

\* SiteGenerator.tsx lines 81-104
ReactProjectSchema ==
    ZObject(<< Field("title", ZString),
               Field("description", ZString),
               Field("theme", ZOptional(ZEnum(Themes))),
               Field("framework", ZLiteral("react-vite-typescript")),
               Field("files", ZObject(<<
                   Field("packageJson", ZString),
                   Field("viteConfig", ZString),
                   Field("tsConfig", ZString),
                   Field("tailwindConfig", ZString),
                   Field("postcssConfig", ZString),
                   Field("indexHtml", ZString),
                   Field("mainTsx", ZString),
                   Field("appTsx", ZString),
                   Field("appCss", ZString),
                   Field("components", ZRecord(ZString)),
                   Field("pages", ZRecord(ZString)),
                   Field("lib", ZRecord(ZString)) >>)),
               Field("additionalFiles", ZOptional(ZRecord(ZString))),
               Field("features", ZArray(ZString, 0)),
               Field("responsive", ZBoolean),
               Field("interactive", ZBoolean),
               Field("shadcnComponents", ZArray(ZString, 0)) >>)

\* lines 418-430: the schema applied for a generation type
Schema(g) ==
    IF g = "preview" THEN SiteSchema
    ELSE IF g = "react-vite" THEN ReactProjectSchema ELSE WebsiteSchema

----------------------------------------------------------------------------
(* cleanToJson on texts, and the parse of a response's text                  *)

\* the three backquotes of a markdown fence, as one token
Fence == "[fence]"
\* the word "json" in any letter case (the regex has the i flag)
JsonWords == { "json", "JSON", "Json" }

DropFirst(text, n) == SubSeq(text, n + 1, Len(text))
DropLast(text, n) == SubSeq(text, 1, Len(text) - n)

\* "\n?" after a leading match of n tokens
OptionalNewline(text, n) == IF Len(text) > n /\ text[n + 1] = "\n" THEN n + 1 ELSE n

\* variant: without the i flag only the lower-case word is matched
StripLeadingJsonFenceCaseSensitive(text) ==
    IF Len(text) >= 2 /\ text[1] = Fence /\ text[2] = "json"
    THEN DropFirst(text, OptionalNewline(text, 2)) ELSE text

\* line 110: .replace(/^```json\n?/i, "")
StripLeadingJsonFence(text) ==
    IF Len(text) >= 2 /\ text[1] = Fence /\ text[2] \in JsonWords
    THEN DropFirst(text, OptionalNewline(text, 2)) ELSE text

\* line 111: .replace(/^```\n?/i, "")
StripLeadingFence(text) ==
    IF Len(text) >= 1 /\ text[1] = Fence
    THEN DropFirst(text, OptionalNewline(text, 1)) ELSE text

\* line 112: .replace(/\n?```$/i, ""): the fence must be the very end of the text
StripTrailingFence(text) ==
    IF Len(text) >= 1 /\ text[Len(text)] = Fence
    THEN IF Len(text) >= 2 /\ text[Len(text) - 1] = "\n"
         THEN DropLast(text, 2) ELSE DropLast(text, 1)
    ELSE text

RECURSIVE TrimStart(_)
TrimStart(text) ==
    IF text # << >> /\ IsWhitespace(Head(text)) THEN TrimStart(Tail(text)) ELSE text

RECURSIVE TrimEnd(_)
TrimEnd(text) ==
    IF text # << >> /\ IsWhitespace(text[Len(text)]) THEN TrimEnd(DropLast(text, 1)) ELSE text

\* line 113: .trim()
TrimText(text) == TrimEnd(TrimStart(text))

\* the end of the span opened at or after token i: the place where the depth
\* of braces and brackets is back at zero, those inside string literals not
\* counted; 0 when the span is never closed
RECURSIVE BalancedEnd(_, _, _)
BalancedEnd(text, i, depth) ==
    LET j == FirstAt(text, i, { "\"", "{", "[", "}", "]" }, EveryPlace)
    IN IF j = 0 THEN 0
       ELSE IF text[j] = "\""
            THEN IF StringEnd(text, j + 1) = 0 THEN 0
                 ELSE BalancedEnd(text, StringEnd(text, j + 1) + 1, depth)
            ELSE IF text[j] \in { "{", "[" } THEN BalancedEnd(text, j + 1, depth + 1)
                 ELSE IF depth = 1 THEN j ELSE BalancedEnd(text, j + 1, depth - 1)

\* the first and last token of the span from the first opening brace or
\* bracket to its balanced close, << 0, 0 >> when there is none
BalancedSpan(text) ==
    LET first == FirstAt(text, 1, { "{", "[" }, EveryPlace)
        last == IF first = 0 THEN 0 ELSE BalancedEnd(text, first, 0)
    IN IF last = 0 THEN << 0, 0 >> ELSE << first, last >>

\* the substring from the first opening brace or bracket to its balanced close
BalancedSubstring(text) ==
    LET span == BalancedSpan(text)
    IN IF span[1] = 0 THEN << >> ELSE SubSeq(text, span[1], span[2])

\* variant: the balanced span is cut out of the text
cleanToJsonBalanced(text) == BalancedSubstring(text)

\* lines 108-114
cleanToJsonText(text) ==
    TrimText(StripTrailingFence(StripLeadingFence(StripLeadingJsonFence(text))))

\* lines 415-447: the text of a response is cleaned, parsed and validated
\* against the schema of generation type g; when JSON.parse or the schema
\* throws, the catch at line 432 calls attemptAutoFix with the cleaned text
ParseGenerated(g, text) ==
    LET jsonText == cleanToJsonText(text)
        parsed == JsonParse(jsonText)
        checked == IF parsed.ok THEN ZodParse(Schema(g), parsed.v) ELSE Invalid
    IN [ jsonText |-> jsonText,
         parses |-> parsed.ok,
         ok |-> checked.ok,
         value |-> checked.v,
         repair |-> ~checked.ok,
         badText |-> IF checked.ok THEN << >> ELSE jsonText ]

\* ---- texts the upstream may return ----

\* longest sections array drawn
MaxJsonSections == 2

JStr(word) == Str(<< word >>)

HeroJson == Obj(<< Entry(Key("type"), JStr("hero")), Entry(Key("headline"), JStr("H")) >>)

\* sections: the four variants with their optional fields, a string with a
\* quote and braces in it, an unknown field, and an unknown type tag
SectionJsons ==
    { HeroJson,
      Obj(<< Entry(Key("type"), JStr("hero")),
             Entry(Key("headline"), Str(<< "{", "a", "\"", "]" >>)),
             Entry(Key("subheadline"), JStr("S")),
             Entry(Key("ctaLabel"), JStr("Go")) >>),
      Obj(<< Entry(Key("type"), JStr("features")),
             Entry(Key("items"), Arr(<< Obj(<< Entry(Key("title"), JStr("F")),
                                               Entry(Key("description"), JStr("D")),
                                               Entry(Key("icon"), JStr("*")) >>) >>)) >>),
      Obj(<< Entry(Key("quote"), JStr("Q")), Entry(Key("type"), JStr("testimonial")),
             Entry(Key("author"), JStr("A")) >>),
      Obj(<< Entry(Key("headline"), JStr("H")), Entry(Key("type"), JStr("cta")),
             Entry(Key("badge"), JStr("new")) >>),
      Obj(<< Entry(Key("type"), JStr("banner")), Entry(Key("headline"), JStr("H")) >>) }

SectionLists == UNION { [ 1..n -> SectionJsons ] : n \in 0..MaxJsonSections }

\* theme: absent, a member of the enum, a value outside it
ThemeEntries == { << >>, << Entry(Key("theme"), JStr("dark")) >>, << Entry(Key("theme"), JStr("blue")) >> }

SiteJson(theme, secs) ==
    Obj(<< Entry(Key("title"), JStr("T")) >> \o theme \o << Entry(Key("sections"), Arr(secs)) >>)

EmptyPagesJson == Obj(<< Entry(Key("pages"), Arr(<< >>)) >>)

\* a site in the multi-page shape: a site name, a theme and pages of sections
ProjectJson(slugs) ==
    Obj(<< Entry(Key("siteName"), JStr("N")), Entry(Key("theme"), JStr("green")),
           Entry(Key("pages"), Arr([ i \in 1..Len(slugs) |->
               Obj(<< Entry(Key("slug"), JStr(slugs[i])), Entry(Key("title"), JStr("T")),
                      Entry(Key("sections"), Arr(<< HeroJson >>)) >>) ])) >>)

WebsiteJson ==
    Obj(<< Entry(Key("title"), JStr("T")), Entry(Key("description"), JStr("D")),
           Entry(Key("files"), Obj(<< Entry(Key("html"), JStr("h")), Entry(Key("css"), JStr("c")),
                                      Entry(Key("nodejs"), Obj(<< Entry(Key("packageJson"), JStr("p")),
                                                                  Entry(Key("serverJs"), JStr("s")),
                                                                  Entry(Key("routes"), Obj(<< Entry(Key("api"), JStr("r")) >>)) >>)) >>)),
           Entry(Key("features"), Arr(<< JStr("responsive") >>)),
           Entry(Key("responsive"), Bool(<< "true" >>)),
           Entry(Key("interactive"), Bool(<< "false" >>)) >>)

ReactProjectJson ==
    Obj(<< Entry(Key("title"), JStr("T")), Entry(Key("description"), JStr("D")),
           Entry(Key("framework"), JStr("react-vite-typescript")),
           Entry(Key("files"), Obj(<< Entry(Key("packageJson"), JStr("p")), Entry(Key("viteConfig"), JStr("v")),
                                      Entry(Key("tsConfig"), JStr("t")), Entry(Key("tailwindConfig"), JStr("w")),
                                      Entry(Key("postcssConfig"), JStr("o")), Entry(Key("indexHtml"), JStr("i")),
                                      Entry(Key("mainTsx"), JStr("m")), Entry(Key("appTsx"), JStr("a")),
                                      Entry(Key("appCss"), JStr("c")),
                                      Entry(Key("components"), Obj(<< Entry(Key("B.tsx"), JStr("b")) >>)),
                                      Entry(Key("pages"), Obj(<< >>)),
                                      Entry(Key("lib"), Obj(<< >>)) >>)),
           Entry(Key("features"), Arr(<< >>)),
           Entry(Key("responsive"), Bool(<< "true" >>)),
           Entry(Key("interactive"), Bool(<< "true" >>)),
           Entry(Key("shadcnComponents"), Arr(<< JStr("button") >>)) >>)

ResponseValues ==
    { SiteJson(theme, secs) : theme \in ThemeEntries, secs \in SectionLists }
    \cup { EmptyPagesJson,
           Obj(<< Entry(Key("siteName"), JStr("N")), Entry(Key("theme"), JStr("green")),
                  Entry(Key("pages"), Arr(<< >>)) >>),
           Obj(<< Entry(Key("title"), JStr("T")), Entry(Key("pages"), Arr(<< >>)),
                  Entry(Key("sections"), Arr(<< HeroJson >>)) >>),
           Obj(<< Entry(Key("sections"), Arr(<< HeroJson >>)) >>),
           Obj(<< Entry(Key("title"), Null), Entry(Key("sections"), Arr(<< HeroJson >>)) >>),
           Arr(<< HeroJson >>),
           ProjectJson(<< "index" >>), ProjectJson(<< "home", "about" >>),
           WebsiteJson, ReactProjectJson }

ProseBefore == << "Here", " ", "you", " ", "go", ":", "\n" >>
ProseAfter == << "\n", "Enjoy", "!" >>

\* the ways a value comes as text: plain or indented JSON, in a fence (with
\* or without line breaks, with a line break after it, without the word
\* json), between prose, and with trailing commas
TextForms ==
    { "compact", "pretty", "padded", "fenced", "fencedUpper", "fencedTight", "fencedPlain",
      "fencedNewlineAfter", "proseBefore", "proseAfter", "proseAround", "proseFenced",
      "trailingCommas", "trailingCommasPretty" }

TextOf(form, v) ==
    LET compact == JsonStringify(v, 0)
        pretty == JsonStringify(v, 2)
        fenced == << Fence, "json", "\n" >> \o pretty \o << "\n", Fence >>
    IN CASE form = "compact" -> compact
         [] form = "pretty" -> pretty
         [] form = "padded" -> << " ", "\n" >> \o compact \o << "\n" >>
         [] form = "fenced" -> fenced
         [] form = "fencedUpper" -> << Fence, "JSON", "\n" >> \o compact \o << "\n", Fence >>
         [] form = "fencedTight" -> << Fence, "json" >> \o compact \o << Fence >>
         [] form = "fencedPlain" -> << Fence, "\n" >> \o compact \o << "\n", Fence >>
         [] form = "fencedNewlineAfter" -> fenced \o << "\n" >>
         [] form = "proseBefore" -> ProseBefore \o compact
         [] form = "proseAfter" -> compact \o ProseAfter
         [] form = "proseAround" -> ProseBefore \o pretty \o ProseAfter
         [] form = "proseFenced" -> ProseBefore \o fenced
         [] form = "trailingCommas" -> WriteJson(v, Style(FALSE, TRUE, TRUE), 0)
         [] form = "trailingCommasPretty" -> WriteJson(v, Style(TRUE, TRUE, TRUE), 0)

ResponseTexts == { TextOf(form, v) : form \in TextForms, v \in ResponseValues }

----------------------------------------------------------------------------
(* The exporter (src/src/lib/exportSite.ts) and the download handlers.       *)
(* A string is a sequence of characters; a file path is a sequence of        *)
(* tokens, where "/" and "." are tokens of their own and every other token   *)
(* is a run of ordinary characters.                                          *)

\* longest text field, title and record key drawn
MaxStrLen == 4
MaxTitleLen == 3
MaxKeyLen == 2

StringsUpTo(A, n) == UNION { [ 1..k -> A ] : k \in 0..n }

\* characters of text fields: the five escapeHtml replaces, and ordinary ones
\* that spell an entity
HtmlChars == { "&", "<", ">", "\"", "'", "l", "t", ";" }
HtmlStrings == StringsUpTo(HtmlChars, MaxStrLen)

\* characters of titles: lower case, upper case, digit, hyphen, blank, dot, slash
TitleChars == { "a", "A", "7", "-", " ", ".", "/" }
Titles == StringsUpTo(TitleChars, MaxTitleLen)

\* tokens of the keys of routes, components, pages, lib and additionalFiles
KeyChars == { "a", ".", "/" }
Keys == StringsUpTo(KeyChars, MaxKeyLen)

\* String.prototype.replaceAll(c, rep) for a one-character pattern c
RECURSIVE ReplaceAll(_, _, _)
ReplaceAll(str, c, rep) ==
    IF str = << >> THEN << >>
    ELSE (IF Head(str) = c THEN rep ELSE << Head(str) >>) \o ReplaceAll(Tail(str), c, rep)

AmpEntity == << "&", "a", "m", "p", ";" >>
LtEntity == << "&", "l", "t", ";" >>
GtEntity == << "&", "g", "t", ";" >>
QuotEntity == << "&", "q", "u", "o", "t", ";" >>
AposEntity == << "&", "#", "3", "9", ";" >>

\* variant: the angle brackets are left as they are
escapeHtmlTagsKept(input) ==
    ReplaceAll(ReplaceAll(ReplaceAll(input,
        "&", AmpEntity), "\"", QuotEntity), "'", AposEntity)

\* variant: the ampersand is replaced last
escapeHtmlAmpLast(input) ==
    ReplaceAll(ReplaceAll(ReplaceAll(ReplaceAll(ReplaceAll(input,
        "<", LtEntity), ">", GtEntity), "\"", QuotEntity), "'", AposEntity), "&", AmpEntity)

\* exportSite.ts lines 4-11
escapeHtml(input) ==
    ReplaceAll(ReplaceAll(ReplaceAll(ReplaceAll(ReplaceAll(input,
        "&", AmpEntity), "<", LtEntity), ">", GtEntity), "\"", QuotEntity), "'", AposEntity)

\* String.prototype.toLowerCase, on TitleChars
ToLowerChar(c) == IF c = "A" THEN "a" ELSE c
ToLowerCase(str) == [ i \in 1..Len(str) |-> ToLowerChar(str[i]) ]

\* the class [^a-z0-9], on lower-cased TitleChars (a longer token is a word)
NonAlnum(c) == c \in { "-", " ", ".", "/" }

RECURSIVE DropNonAlnum(_)
DropNonAlnum(str) ==
    IF str # << >> /\ NonAlnum(Head(str)) THEN DropNonAlnum(Tail(str)) ELSE str

\* .replace(/[^a-z0-9]+/g, "-")
RECURSIVE DashRuns(_)
DashRuns(str) ==
    IF str = << >> THEN << >>
    ELSE IF NonAlnum(Head(str)) THEN << "-" >> \o DashRuns(DropNonAlnum(str))
    ELSE << Head(str) >> \o DashRuns(Tail(str))

RECURSIVE DropLeadingDashes(_)
DropLeadingDashes(str) ==
    IF str # << >> /\ Head(str) = "-" THEN DropLeadingDashes(Tail(str)) ELSE str

RECURSIVE DropTrailingDashes(_)
DropTrailingDashes(str) ==
    IF str # << >> /\ str[Len(str)] = "-"
    THEN DropTrailingDashes(SubSeq(str, 1, Len(str) - 1)) ELSE str

\* .replace(/^-+|-+$/g, "")
TrimDashes(str) == DropTrailingDashes(DropLeadingDashes(str))

\* variant: without the || "site" at the end
slugifyNoFallback(input) == TrimDashes(DashRuns(ToLowerCase(input)))

\* exportSite.ts lines 13-18
slugify(input) ==
    LET slug == TrimDashes(DashRuns(ToLowerCase(input)))
    IN IF slug = << >> THEN << "site" >> ELSE slug

\* exportSite.ts lines 20-22
filenameForSite(st) ==
    slugify(IF st.title = << >> THEN << "site" >> ELSE st.title) \o << ".", "html" >>

\* ---- sites (src/src/types/site.ts) ----

\* a section; the fields its type does not have are empty, and an optional
\* field that is absent is empty (the code tests them for truthiness)
Section(ty, h, sub, c, ti, its, q, a) ==
    [ type |-> ty, headline |-> h, subheadline |-> sub, ctaLabel |-> c,
      title |-> ti, items |-> its, quote |-> q, author |-> a ]
Hero(h, sub, c) == Section("hero", h, sub, c, << >>, << >>, << >>, << >>)
Features(ti, its) == Section("features", << >>, << >>, << >>, ti, its, << >>, << >>)
Testimonial(q, a) == Section("testimonial", << >>, << >>, << >>, << >>, << >>, q, a)
Cta(h, c) == Section("cta", h, << >>, c, << >>, << >>, << >>, << >>)
Item(ti, d) == [ title |-> ti, description |-> d ]

\* texts the sites are built from: empty, a tag, an entity, quotes
FieldTexts == { << >>, << "<", "t", ">" >>, << "&", "l", "t", ";" >>, << "\"", "'" >> }

SampleSections ==
    { Hero(h, sub, c) : h \in FieldTexts, sub \in FieldTexts, c \in FieldTexts }
    \cup { Features(ti, << Item(a, b) >>) : ti \in FieldTexts, a \in FieldTexts, b \in FieldTexts }
    \cup { Testimonial(q, a) : q \in FieldTexts, a \in FieldTexts }
    \cup { Cta(h, c) : h \in FieldTexts, c \in FieldTexts }

MaxSections == 1
Sites ==
    { [ title |-> ti, sections |-> secs ] :
        ti \in FieldTexts,
        secs \in UNION { [ 1..k -> SampleSections ] : k \in 1..MaxSections } }

\* sites for filenameForSite, whose result depends on the title alone
TitledSites == { [ title |-> ti, sections |-> << Cta(<< "t" >>, << >>) >> ] : ti \in Titles }

\* ---- buildStandaloneHtml: the document is a sequence of chunks, a chunk is
\* a literal piece of the template (markup) or an interpolated value (text)
Markup(name) == [ s |-> << >>, kind |-> "markup", tag |-> name ]
Text(str) == [ s |-> str, kind |-> "text", tag |-> "" ]

\* `${cond ? `<open>${escapeHtml(v)}<close>` : ""}`
Optional(open, v, close) ==
    IF v = << >> THEN << >> ELSE << Markup(open), Text(escapeHtml(v)), Markup(close) >>

\* exportSite.ts lines 58-67: section.items.map(...).join("")
RECURSIVE RenderItems(_)
RenderItems(its) ==
    IF its = << >> THEN << >>
    ELSE << Markup("<article><h3>"), Text(escapeHtml(Head(its).title)),
            Markup("</h3><p>"), Text(escapeHtml(Head(its).description)),
            Markup("</p></article>") >> \o RenderItems(Tail(its))

\* exportSite.ts lines 47-87: the callback of site.sections.map
RenderSection(sec) ==
    CASE sec.type = "hero" ->
            << Markup("<section hero><h1>"), Text(escapeHtml(sec.headline)), Markup("</h1>") >>
            \o Optional("<p>", sec.subheadline, "</p>")
            \o Optional("<div><button>", sec.ctaLabel, "</button></div>")
            \o << Markup("</section>") >>
      [] sec.type = "features" ->
            << Markup("<section>") >>
            \o Optional("<h2>", sec.title, "</h2>")
            \o << Markup("<div grid>") >> \o RenderItems(sec.items)
            \o << Markup("</div></section>") >>
      [] sec.type = "testimonial" ->
            << Markup("<section><blockquote>"), Text(escapeHtml(sec.quote)),
               Markup("</blockquote><figcaption>"), Text(escapeHtml(sec.author)),
               Markup("</figcaption></section>") >>
      [] sec.type = "cta" ->
            << Markup("<section><h2>"), Text(escapeHtml(sec.headline)), Markup("</h2>") >>
            \o Optional("<div><button>", sec.ctaLabel, "</button></div>")
            \o << Markup("</section>") >>
      [] OTHER -> << >>

\* .join("\n")
RECURSIVE JoinSections(_)
JoinSections(secs) ==
    IF secs = << >> THEN << >>
    ELSE IF Len(secs) = 1 THEN RenderSection(secs[1])
    ELSE RenderSection(secs[1]) \o << Markup("\n") >> \o JoinSections(Tail(secs))

\* site.title || "Site"
TitleOrSite(st) == IF st.title = << >> THEN << "S", "i", "t", "e" >> ELSE st.title

\* exportSite.ts lines 24-103
buildStandaloneHtml(st) ==
    << Markup("<!doctype html><html><head><title>"), Text(escapeHtml(TitleOrSite(st))),
       Markup("</title><style>css</style></head>"), Markup("<body>") >>
    \o JoinSections(st.sections)
    \o << Markup("</body>"), Markup("</html>") >>

\* ---- file names ----

File(name) == [ name |-> name ]

\* zip.file(name, content)
ZipFile(name, content) == [ name |-> name, content |-> content ]

\* ---- the sites a project archive is built from ----

\* sections for the archive: in these an optional field is absent or not empty
ZipSections ==
    { Hero(<< "<", "t", ">" >>, << >>, << >>),
      Hero(<< "\"", "'" >>, << "&", "l", "t", ";" >>, << "<", "t", ">" >>),
      Features(<< >>, << Item(<< "\"", "'" >>, << >>) >>),
      Testimonial(<< "&", "l", "t", ";" >>, << "\\", "n" >>),
      Testimonial(<< "<", "body", ">" >>, << "<", "/", "body", ">" >>),
      Cta(<< >>, << "\"", "'" >>),
      Cta(<< "<", "/", "body", ">" >>, << "<", "body", ">" >>) }

\* sites with a theme, or without one (empty); a title and the texts of a
\* section may spell a body tag
ZipSites ==
    { [ title |-> ti, theme |-> th, sections |-> secs ] :
        ti \in FieldTexts \cup { << "<", "body", ">" >>, << "<", "/", "body", ">" >> },
        th \in { << >>, << "dark" >> },
        secs \in UNION { [ 1..k -> ZipSections ] : k \in 1..MaxSections } }

\* an entry for an optional field: none when the field is absent
OptionalEntry(name, v) == IF v = << >> THEN << >> ELSE << Entry(Key(name), Str(v)) >>

\* site.ts lines 1-25: a section as the object JSON.stringify is given
SectionValue(sec) ==
    CASE sec.type = "hero" ->
            Obj(<< Entry(Key("type"), JStr("hero")), Entry(Key("headline"), Str(sec.headline)) >>
                \o OptionalEntry("subheadline", sec.subheadline)
                \o OptionalEntry("ctaLabel", sec.ctaLabel))
      [] sec.type = "features" ->
            Obj(<< Entry(Key("type"), JStr("features")) >>
                \o OptionalEntry("title", sec.title)
                \o << Entry(Key("items"),
                            Arr([ i \in 1..Len(sec.items) |->
                                    Obj(<< Entry(Key("title"), Str(sec.items[i].title)),
                                           Entry(Key("description"), Str(sec.items[i].description)) >>) ])) >>)
      [] sec.type = "testimonial" ->
            Obj(<< Entry(Key("type"), JStr("testimonial")),
                   Entry(Key("quote"), Str(sec.quote)), Entry(Key("author"), Str(sec.author)) >>)
      [] sec.type = "cta" ->
            Obj(<< Entry(Key("type"), JStr("cta")), Entry(Key("headline"), Str(sec.headline)) >>
                \o OptionalEntry("ctaLabel", sec.ctaLabel))

\* site.ts lines 27-31: the site as the object JSON.stringify is given
SiteValue(st) ==
    Obj(<< Entry(Key("title"), Str(st.title)) >>
        \o OptionalEntry("theme", st.theme)
        \o << Entry(Key("sections"), Arr([ i \in 1..Len(st.sections) |-> SectionValue(st.sections[i]) ])) >>)

\* the document as a string: a piece of the template is one token, the two
\* body tags are spelt out, a text is the tokens of its (escaped) value.  The
\* white space of the template is left out.
RECURSIVE HtmlText(_)
HtmlText(chunks) ==
    IF chunks = << >> THEN << >>
    ELSE LET c == Head(chunks)
         IN (IF c.kind = "text" THEN c.s
             ELSE IF c.tag = "<body>" THEN << "<", "body", ">" >>
             ELSE IF c.tag = "</body>" THEN << "<", "/", "body", ">" >>
             ELSE << c.tag >>) \o HtmlText(Tail(chunks))

\* String.prototype.indexOf and lastIndexOf, positions from 1, 0 for -1
Occurrences(str, pat) ==
    { i \in 1..(Len(str) - Len(pat) + 1) : SubSeq(str, i, i + Len(pat) - 1) = pat }
IndexOf(str, pat) ==
    IF Occurrences(str, pat) = {} THEN 0
    ELSE CHOOSE i \in Occurrences(str, pat) : \A j \in Occurrences(str, pat) : i <= j
LastIndexOf(str, pat) ==
    IF Occurrences(str, pat) = {} THEN 0
    ELSE CHOOSE i \in Occurrences(str, pat) : \A j \in Occurrences(str, pat) : i >= j

\* exportSite.ts lines 118-123: what stands between the first <body> and the
\* last </body> of the full document
BodyContent(fullHtml) ==
    LET bodyOpen == IndexOf(fullHtml, << "<", "body", ">" >>)
        bodyClose == LastIndexOf(fullHtml, << "<", "/", "body", ">" >>)
    IN IF bodyOpen # 0 /\ bodyClose # 0 /\ bodyClose > bodyOpen
       THEN SubSeq(fullHtml, bodyOpen + Len(<< "<", "body", ">" >>), bodyClose - 1)
       ELSE << >>

\* exportSite.ts lines 113-134: the files given to zip.file, in order
buildProjectZip(st) ==
    << ZipFile(<< "index", ".", "html" >>,
               HtmlText(<< Markup("<!doctype html><html><head><title>"),
                           Text(escapeHtml(TitleOrSite(st))),
                           Markup("</title><link styles.css></head>"), Markup("<body>") >>)
               \o BodyContent(HtmlText(buildStandaloneHtml(st)))
               \o HtmlText(<< Markup("<script script.js>"), Markup("</body>"),
                              Markup("</html>") >>)),
       ZipFile(<< "styles", ".", "css" >>, << Markup("/* Project styles */") >>),
       ZipFile(<< "script", ".", "js" >>, << Markup("// Optional interactivity") >>),
       ZipFile(<< "site", ".", "json" >>, JsonStringify(SiteValue(st), 2)),
       ZipFile(<< "README", ".", "md" >>,
               << Markup("# "), Text(escapeHtml(TitleOrSite(st))), Markup("Generated with root dev.") >>) >>

\* a generated website, reduced to what decides the file names: whether
\* files.nodejs is present, and the keys of routes and additionalFiles in
\* Object.entries order
KeyLists == { << >> } \cup { << k >> : k \in Keys }
Websites == [ nodejs : BOOLEAN, routes : KeyLists, additionalFiles : KeyLists ]
\* a generated React project, reduced to the keys of its four file records;
\* two of them at a time are filled
EmptyReactProject ==
    [ components |-> << >>, pages |-> << >>, lib |-> << >>, additionalFiles |-> << >> ]
ReactProjects ==
    { [ EmptyReactProject EXCEPT !.components = a, !.additionalFiles = b ] :
        a \in KeyLists, b \in KeyLists }
    \cup { [ EmptyReactProject EXCEPT !.pages = a, !.lib = b ] :
        a \in KeyLists, b \in KeyLists }

\* files.push({ name: `${prefix}${key}${suffix}`, ... }) for every key
Named(prefix, keys, suffix) == [ i \in 1..Len(keys) |-> File(prefix \o keys[i] \o suffix) ]

\* SiteGenerator.tsx lines 233-258: the files array of downloadWebsite
downloadWebsite(w) ==
    << File(<< "index", ".", "html" >>), File(<< "styles", ".", "css" >>),
       File(<< "script", ".", "js" >>) >>
    \o (IF w.nodejs
        THEN << File(<< "package", ".", "json" >>), File(<< "server", ".", "js" >>) >>
             \o Named(<< "routes", "/" >>, w.routes, << ".", "js" >>)
        ELSE << >>)
    \o Named(<< >>, w.additionalFiles, << >>)

\* SiteGenerator.tsx lines 275-310: the files array of downloadReactProject
downloadReactProject(rp) ==
    << File(<< "package", ".", "json" >>), File(<< "vite", ".", "config", ".", "ts" >>),
       File(<< "tsconfig", ".", "json" >>), File(<< "tailwind", ".", "config", ".", "js" >>),
       File(<< "postcss", ".", "config", ".", "js" >>), File(<< "index", ".", "html" >>),
       File(<< "src", "/", "main", ".", "tsx" >>), File(<< "src", "/", "App", ".", "tsx" >>),
       File(<< "src", "/", "App", ".", "css" >>) >>
    \o Named(<< "src", "/", "components", "/" >>, rp.components, << >>)
    \o Named(<< "src", "/", "pages", "/" >>, rp.pages, << >>)
    \o Named(<< "src", "/", "lib", "/" >>, rp.lib, << >>)
    \o Named(<< >>, rp.additionalFiles, << >>)

\* ---- one action per exported operation ----

\* the component's state, which no export operation touches
componentVars == << uiVars, loading, error, site, website, reactProject, lastRawText,
                   pc, modelsToTry, mi, attempt, lastError, inFlight, primaryLog,
                   repairCount, sleepLog, allTransient, fixing, typeAtStart >>

\* an operation is called when the previous call has returned
ExportIdle == exportOp = "none"

\* variant: buildProjectZip stores the defaulted title in the site
\* (site.title ||= "Site")
ArgumentAfterTitleStored(op, in) ==
    IF op = "buildProjectZip" THEN [ in EXCEPT !.title = TitleOrSite(in) ] ELSE in

\* exportSite.ts lines 20-134: the argument after the call. No operation
\* assigns to a property of site or of a section; sections and items are
\* walked with map and join, which build new values
ArgumentAfter(op, in) == in

\* operation op is called with argument in and returns out
Export(op, in, out) ==
    /\ ExportIdle
    /\ exportOp' = op
    /\ exportIn' = in
    /\ exportOut' = out
    /\ exportArg' = ArgumentAfter(op, in)
    /\ UNCHANGED componentVars

CallEscapeHtml(str) == Export("escapeHtml", str, escapeHtml(str))
CallBuildStandaloneHtml(st) == Export("buildStandaloneHtml", st, buildStandaloneHtml(st))
CallFilenameForSite(st) == Export("filenameForSite", st, filenameForSite(st))
CallBuildProjectZip(st) == Export("buildProjectZip", st, buildProjectZip(st))
CallDownloadWebsite(w) == Export("downloadWebsite", w, downloadWebsite(w))
CallDownloadReactProject(rp) == Export("downloadReactProject", rp, downloadReactProject(rp))

\* the caller has taken the result
ExportReturn ==
    /\ exportOp # "none"
    /\ exportOp' = "none"
    /\ exportIn' = << >>
    /\ exportOut' = << >>
    /\ exportArg' = << >>
    /\ UNCHANGED componentVars

ExportNext ==
    \/ ExportReturn
    \/ ExportIdle /\ \E str \in HtmlStrings : CallEscapeHtml(str)
    \/ ExportIdle /\ \E st \in Sites \cup ZipSites : CallBuildStandaloneHtml(st)
    \/ ExportIdle /\ \E st \in TitledSites : CallFilenameForSite(st)
    \/ ExportIdle /\ \E st \in ZipSites : CallBuildProjectZip(st)
    \/ ExportIdle /\ \E w \in Websites : CallDownloadWebsite(w)
    \/ ExportIdle /\ \E rp \in ReactProjects : CallDownloadReactProject(rp)

\* the exporter called on every input, one call after the other
ExportSpec == Init /\ [][ExportNext]_vars


\* ---- the parse step of handleGenerate on one text ----

\* the value a setter stores
Stored(v) == [ value |-> v ]

\* lines 414-447: a response with text arrives in a generation of the current
\* type: setLastRawText, cleanToJson, JSON.parse, the schema, and the setter of
\* the generation type, or the call of attemptAutoFix
ParseResponseText(text) ==
    LET out == ParseGenerated(generationType, text)
    IN /\ ExportIdle
       /\ pc = "idle"
       /\ exportOp' = "parseGenerated"
       /\ exportIn' = [ generationType |-> generationType, text |-> text ]
       /\ exportOut' = out
       /\ exportArg' = text
       /\ lastRawText' = text
       /\ site' = IF out.ok /\ generationType = "preview" THEN Stored(out.value) ELSE site
       /\ reactProject' = IF out.ok /\ generationType = "react-vite" THEN Stored(out.value) ELSE reactProject
       /\ website' = IF out.ok /\ generationType \notin { "preview", "react-vite" }
                     THEN Stored(out.value) ELSE website
       /\ UNCHANGED << uiVars, loading, error, pc, modelsToTry, mi, attempt, lastError,
                       inFlight, primaryLog, repairCount, sleepLog, allTransient,
                    fixing, typeAtStart >>

\* lines 330-333: the next generation starts from cleared results
ResetResults ==
    /\ exportOp = "parseGenerated"
    /\ exportOp' = "none"
    /\ exportIn' = << >>
    /\ exportOut' = << >>
    /\ exportArg' = << >>
    /\ ClearResults
    /\ lastRawText' = NoText
    /\ UNCHANGED << uiVars, loading, error, pc, modelsToTry, mi, attempt, lastError,
                    inFlight, primaryLog, repairCount, sleepLog, allTransient,
                    fixing, typeAtStart >>

PipelineNext ==
    \/ ExportIdle /\ \E g \in GenerationTypes : SetGenerationType(g)
    \/ ExportIdle /\ \E text \in ResponseTexts : ParseResponseText(text)
    \/ ResetResults

\* the parse step on every text, one response after the other
PipelineSpec == Init /\ [][PipelineNext]_vars

----------------------------------------------------------------------------
(* Claims *)

\* |modelsToTry| x (maxRetries + 1)
MaxPrimary == (Len(BuiltinModels) + 1) * (maxRetries + 1)

\* what the failed attempt left as its reason: lastError, or, when the step
\* ended the invocation, the reason carried by the error state
Reason == IF pc = "done" THEN error.last ELSE lastError

ResultStored == site # NoResult \/ website # NoResult \/ reactProject # NoResult

\* the transient-overload signal in the spec's words
TransientSignal(r) ==
    r.kind = "http" /\ r.status = 503 /\ r.body.parses /\ r.body.errorStatus = "UNAVAILABLE"

\* a hard error in the spec's words: a thrown network error, or a non-2xx
\* answer that is not the transient signal (an unparseable body included)
HardError(r) == r.kind = "reject" \/ (r.kind = "http" /\ ~ResOk(r) /\ ~TransientSignal(r))

\* a 2xx answer without a usable text
NoUsableText(r) ==
    r.kind = "http" /\ ResOk(r) /\ r.body.parses /\ (~r.body.hasText \/ r.body.text = EmptyText)

\* the attempt consumed exactly one slot of the (model, attempt) schedule
ConsumedOneSlot ==
    IF attempt < maxRetries
    THEN pc' = "sleep" /\ mi' = mi /\ attempt' = attempt + 1
    ELSE IF mi < Len(modelsToTry)
         THEN pc' = "fetch" /\ mi' = mi + 1 /\ attempt' = 0
         ELSE pc' = "done" /\ error'.kind = "allFailed"

\* C1: under LiveSpec (every awaited network call and backoff sleep completes)
\* every handleGenerate invocation settles, and an invocation never issues more
\* than 6 x 3 = 18 primary requests, whatever the upstream answers.
C1_TerminatesBounded ==
    /\ [](Len(primaryLog) <= 6 * 3)
    /\ (loading ~> (pc = "done" /\ ~loading))

\* C1 witness: an invocation that used all 18 primary requests has settled
C1_Witness == pc = "done" /\ ~loading /\ Len(primaryLog) = 18 /\ ~allTransient

\* C2: when every primary attempt is answered 503/UNAVAILABLE, the invocation
\* settles after exactly |models| x (maxRetries+1) primary attempts, with the
\* terminal failure, and not before.
C2_AllTransientExact ==
    (allTransient /\ primaryLog # << >>) =>
        /\ Len(primaryLog) <= MaxPrimary
        /\ (pc = "done" => (Len(primaryLog) = MaxPrimary /\ error.kind = "allFailed"))
        /\ (error # NoError => pc = "done")
        /\ (Len(primaryLog) < MaxPrimary => (loading /\ error = NoError))

\* C2 witness: all 18 attempts were answered transient-overload, then failure
C2_Witness ==
    pc = "done" /\ allTransient /\ Len(primaryLog) = MaxPrimary /\ error.kind = "allFailed"

\* C3: once a payload has passed parsing and validation (directly or after the
\* repair call) the result is stored and the invocation has returned: no
\* request is in flight, and no primary request, repair request or sleep is
\* added for the remaining attempts or models.
C3_ReturnsOnFirstSuccess ==
    [][ ResultStored' =>
            /\ pc' = "done"
            /\ ~loading'
            /\ inFlight' = {}
            /\ UNCHANGED << primaryLog, repairCount, sleepLog >> ]_vars

\* C3 witness: a repaired success on the second attempt of the first model,
\* with sixteen attempts left unused
C3_Witness ==
    pc = "done" /\ ResultStored /\ Len(primaryLog) = 2 /\ repairCount = 1

\* C4 (original claim): attemptAutoFix is invoked at most once in one
\* handleGenerate invocation, and a failed repair call is terminal: no
\* invocation is still running once a repair has failed.
C4_RepairOnceAndTerminal ==
    /\ repairCount <= 1
    /\ (lastError.prefix = "autofix" => pc = "done")

\* number of primary requests sent to model identity m
AttemptsOn(m) == Cardinality({ k \in 1..Len(primaryLog) : primaryLog[k].model = m })

\* C5 (original claim): no model identity receives more than maxRetries+1
\* primary attempts in one invocation.
C5_PerIdentityBound ==
    \A m \in ModelChoices \cup { BuiltinModels[k] : k \in 1..Len(BuiltinModels) } :
        AttemptsOn(m) <= maxRetries + 1

\* C6: candidates are attempted in list order, the user-selected model first:
\* each new primary request goes to the current candidate of the list, the
\* first one to the selected model, and a later one either to the same
\* candidate with a larger attempt index or to the next candidate.
C6_ListOrder ==
    [][ (primaryLog' # primaryLog /\ primaryLog' # << >>) =>
            LET n == Len(primaryLog')
                e == primaryLog'[n]
            IN /\ e.model = modelsToTry'[e.mi]
               /\ IF n = 1
                  THEN e.mi = 1 /\ e.attempt = 0 /\ e.model = model
                  ELSE LET d == primaryLog'[n - 1]
                       IN \/ e.mi = d.mi /\ e.attempt > d.attempt
                          \/ e.mi = d.mi + 1 /\ e.attempt = 0 ]_vars

\* C6 witness: with gemini-2.5-flash selected, the fourth request went to the
\* second candidate
C6_Witness ==
    /\ Len(primaryLog) >= 4
    /\ primaryLog[1].model = "gemini-2.5-flash"
    /\ primaryLog[4].mi = 2
    /\ primaryLog[4].model = "gemini-1.5-flash"

\* C7: a hard error on an attempt never aborts the generation: the attempt
\* consumes one slot (retry of the same model, else the next candidate), and a
\* terminal failure of the loop is raised only after all candidates are used up.
C7_HardErrorNeverAborts ==
    [][ /\ pc = "fetch" =>
              \A r \in Responses : (HardError(r) /\ PrimaryResponse(r)) => ConsumedOneSlot
        /\ (pc' = "done" /\ error'.kind \notin { "null", "missingKey", "emptyPrompt" })
              => (error'.kind = "allFailed" /\ Len(primaryLog') = MaxPrimary) ]_vars

\* C7 witness: after hard errors on the first candidate the second is tried
C7_Witness ==
    pc = "fetch" /\ mi = 2 /\ attempt = 0 /\ lastError.kind = "gemini" /\ ~allTransient

\* C8: a failed attempt is classified transient-overload exactly when the
\* status is 503 and the JSON error body has error.status UNAVAILABLE, in the
\* primary call and in the repair call alike.
C8_Classification ==
    [][ /\ pc = "fetch" =>
              \A r \in Responses :
                 (pc' # "fix" /\ ~ResultStored' /\ PrimaryResponse(r))
                     => (Reason'.kind = "overloaded" <=> TransientSignal(r))
        /\ pc = "fix" =>
              \A r \in Responses :
                 (~ResultStored' /\ FixResponse(r))
                     => (Reason'.kind = "fixerOverloaded" <=> TransientSignal(r)) ]_vars

\* C8 witness: a 503 answer with another error.status was taken as a hard error
C8_Witness ==
    pc = "sleep" /\ lastError.kind = "gemini" /\ lastError.status = 503

\* C9: a 2xx answer without text is a hard error of the attempt: it consumes
\* one slot, no parse, store or repair call happens, lastRawText is unchanged.
C9_EmptyPayload ==
    [][ pc = "fetch" => \A r \in Responses :
            (NoUsableText(r) /\ PrimaryResponse(r)) =>
                /\ ConsumedOneSlot
                /\ Reason' = NoContentMsg
                /\ lastRawText' = lastRawText
                /\ repairCount' = repairCount
                /\ ~ResultStored' ]_vars

\* C9 witness: an empty answer came after an answer with text, which
\* lastRawText still holds
C9_Witness ==
    pc = "sleep" /\ lastError = NoContentMsg /\ lastRawText # NoText

\* C10: at most one network call of an invocation is in flight at any time,
\* and none while the invocation sleeps or after it has settled.
C10_OneInFlight ==
    /\ Cardinality(inFlight) <= 1
    /\ (pc \in { "sleep", "done", "idle" } => inFlight = {})
    /\ (pc \in { "fetch", "fix" } => Cardinality(inFlight) = 1)

\* C10 witness: the repair call is the only call in flight
C10_Witness ==
    pc = "fix" /\ repairCount = 2 /\ \E rq \in inFlight : rq.call = "repair"

C12_LinearBackoff ==
    [][ /\ (sleepLog' # sleepLog /\ sleepLog' # << >>) =>
              /\ pc' = "sleep"
              /\ attempt' >= 1
              /\ sleepLog' = Append(sleepLog, attempt' * 1000)
              /\ primaryLog' = primaryLog
        /\ (primaryLog' # primaryLog /\ Len(primaryLog') > Len(primaryLog)) =>
              LET e == primaryLog'[Len(primaryLog')]
              IN IF e.attempt = 0
                 THEN pc # "sleep" /\ sleepLog' = sleepLog
                 ELSE /\ pc = "sleep"
                      /\ sleepLog' = sleepLog
                      /\ sleepLog[Len(sleepLog)] = e.attempt * 1000
      ]_vars

\* the second model's first attempt is in flight right after the first model's
\* two retries, which slept 1000 and 2000 ms
C12_Witness ==
    /\ pc = "fetch"
    /\ mi = 2
    /\ attempt = 0
    /\ sleepLog = << 1000, 2000 >>

\* C13: whenever an invocation has settled with a non-null error, site, website
\* and reactProject are all null.
C13_NoPartialResult ==
    (pc = "done" /\ error # NoError) =>
        (site = NoResult /\ website = NoResult /\ reactProject = NoResult)

\* an invocation that received text, and tried repairs, ended in the terminal
\* failure with nothing exposed
C13_Witness ==
    /\ pc = "done"
    /\ error.kind = "allFailed"
    /\ lastRawText # NoText
    /\ repairCount > 0
    /\ ~ResultStored

\* C14 (as stated): when the final attempt on the final candidate fails, one
\* aggregated error is raised whose message carries the reason of that attempt,
\* and for a hard upstream error (a non-2xx answer that is not the transient
\* signal) it carries the status and the body of the answer verbatim.
C14_LastReasonVerbatim ==
    [][ (pc = "fetch" /\ Len(primaryLog) = MaxPrimary) =>
            \A r \in Responses :
               (pc' = "done" /\ ~ResultStored' /\ PrimaryResponse(r)) =>
                   /\ error'.kind = "allFailed"
                   /\ (r.kind = "http" /\ ~ResOk(r) /\ ~TransientSignal(r)) =>
                         /\ error'.last.status = r.status
                         /\ error'.last.body = r.body ]_vars

\* C15: no failure escapes handleGenerate: every upstream outcome has a
\* continuation, a running invocation shows no error, and a settled one has
\* loading false and either a result with a null error or no result and the
\* terminal failure in the error state.
C15_NoEscape ==
    /\ pc \in { "idle", "fetch", "sleep", "fix", "done" }
    /\ ~Settled => (loading /\ error = NoError)
    /\ pc = "fetch" => \A r \in Responses : ENABLED PrimaryResponse(r)
    /\ pc = "fix" => \A r \in Responses : ENABLED FixResponse(r)
    /\ pc = "done" =>
          /\ ~loading
          /\ error = NoError <=> ResultStored
          /\ error.kind \in { "null", "missingKey", "emptyPrompt", "allFailed" }

\* an invocation that met a non-JSON error body on its last attempt, after
\* repairs had failed, has settled with the failure in the error state
C15_Witness ==
    /\ pc = "done"
    /\ ~loading
    /\ error.kind = "allFailed"
    /\ error.last = SyntaxErrorMsg
    /\ repairCount > 0

\* the text, fences stripped, is JSON that the schema of generation type g accepts
Acceptable(g, t) ==
    \/ g = "preview" /\ t.payload = "site"
    \/ g = "fullstack" /\ t.payload = "website"
    \/ g = "react-vite" /\ t.payload = "react"

\* a response with a usable text
CarriesText(r) ==
    r.kind = "http" /\ ResOk(r) /\ r.body.parses /\ r.body.hasText /\ r.body.text # EmptyText

\* C16: a primary response that carries text failing JSON parsing or schema
\* validation triggers exactly one repair call on that text before the next
\* primary attempt; the repair output goes through the same parse and schema,
\* is stored as the result when it passes, and is never repaired again.
C16_RepairOnceSameSchema ==
    [][ /\ pc = "fetch" =>
              \A r \in Responses :
                 (CarriesText(r) /\ ~Acceptable(generationType, r.body.text)
                    /\ PrimaryResponse(r)) =>
                     /\ pc' = "fix"
                     /\ repairCount' = repairCount + 1
                     /\ primaryLog' = primaryLog
                     /\ Cardinality(inFlight') = 1
                     /\ \A rq \in inFlight' :
                           rq.call = "repair" /\ rq.badText.payload = r.body.text.payload
        /\ pc = "fix" =>
              \A r \in Responses :
                 FixResponse(r) =>
                     /\ repairCount' = repairCount
                     /\ pc' # "fix"
                     /\ IF CarriesText(r) /\ Acceptable(generationType, r.body.text)
                        THEN /\ pc' = "done"
                             /\ error' = NoError
                             /\ ResultStored'
                             /\ generationType = "preview" => site'.value = r.body.text.payload
                             /\ generationType = "fullstack" => website'.value = r.body.text.payload
                             /\ generationType = "react-vite" => reactProject'.value = r.body.text.payload
                        ELSE ~ResultStored' /\ Reason'.prefix = "autofix" ]_vars

\* the first invalid text was repaired in vain, the second one's repair was
\* accepted
C16_Witness ==
    /\ pc = "done"
    /\ ResultStored
    /\ Len(primaryLog) = 2
    /\ repairCount = 2

\* C17 (as stated): when the text sent to repair parsed as JSON and failed the
\* schema, the repair request carries the validator's diagnostic (the ZodError)
\* in its instruction context.
C17_RepairCarriesDiagnostic ==
    \A rq \in inFlight :
        (rq.call = "repair" /\ JsonParses(rq.badText)) =>
            \E c \in rq.context : c.part = "diagnostic" /\ c.msg.kind = "zod"

\* C18: every repair request has temperature 0 and a maxOutputTokens strictly
\* smaller than that of the primary request of the same generation type, the
\* one handleGenerate sends and the one handleManualFix builds.
C18_RepairBudget ==
    [][ (pc = "fetch" /\ pc' = "fix") =>
            \A p \in inFlight :
               \A q \in inFlight'
                        \cup { ManualFixRequest(model, generationType, lastRawText', p.id + 2) } :
                  (p.call = "primary" /\ q.call = "repair") =>
                      /\ q.temperature = 0
                      /\ p.temperature > 0
                      /\ q.maxOutputTokens < p.maxOutputTokens ]_vars

\* a repair request of a fullstack generation is in flight with its budget of
\* 3000 tokens
C18_Witness ==
    /\ pc = "fix"
    /\ generationType = "fullstack"
    /\ \E q \in inFlight : q.call = "repair" /\ q.maxOutputTokens = 3000 /\ q.temperature = 0

\* the character sequence is one of the five entities escapeHtml writes
Entities ==
    { [ e |-> AmpEntity, c |-> "&" ], [ e |-> LtEntity, c |-> "<" ],
      [ e |-> GtEntity, c |-> ">" ], [ e |-> QuotEntity, c |-> "\"" ],
      [ e |-> AposEntity, c |-> "'" ] }

StartsWith(str, pre) == Len(str) >= Len(pre) /\ SubSeq(str, 1, Len(pre)) = pre

\* what a browser shows for the text: every entity read back as its character
RECURSIVE Unescaped(_)
Unescaped(str) ==
    IF str = << >> THEN << >>
    ELSE IF \E x \in Entities : StartsWith(str, x.e)
         THEN LET x == CHOOSE y \in Entities : StartsWith(str, y.e)
              IN << x.c >> \o Unescaped(SubSeq(str, Len(x.e) + 1, Len(str)))
         ELSE << Head(str) >> \o Unescaped(Tail(str))

\* no raw <, >, " or ' in the text, and every & in it opens an entity
RECURSIVE NoRawSpecial(_)
NoRawSpecial(str) ==
    \/ str = << >>
    \/ /\ Head(str) \notin { "<", ">", "\"", "'" }
       /\ Head(str) = "&" => \E x \in Entities : StartsWith(str, x.e)
       /\ NoRawSpecial(Tail(str))

NonEmpty(seq) == SelectSeq(seq, LAMBDA v : v # << >>)

\* the user-supplied texts of a section, in document order
RECURSIVE ItemTexts(_)
ItemTexts(its) ==
    IF its = << >> THEN << >>
    ELSE << Head(its).title, Head(its).description >> \o ItemTexts(Tail(its))

SectionTexts(sec) ==
    CASE sec.type = "hero" -> << sec.headline >> \o NonEmpty(<< sec.subheadline, sec.ctaLabel >>)
      [] sec.type = "features" -> NonEmpty(<< sec.title >>) \o ItemTexts(sec.items)
      [] sec.type = "testimonial" -> << sec.quote, sec.author >>
      [] sec.type = "cta" -> << sec.headline >> \o NonEmpty(<< sec.ctaLabel >>)

RECURSIVE SiteTexts(_)
SiteTexts(secs) ==
    IF secs = << >> THEN << >> ELSE SectionTexts(Head(secs)) \o SiteTexts(Tail(secs))

TextChunks(doc) == SelectSeq(doc, LAMBDA ch : ch.kind = "text")

\* C19: every user-supplied text is HTML-escaped before interpolation: the
\* text escapeHtml returns, and every text interpolated by buildStandaloneHtml,
\* has no raw <, >, " or ', has every & as part of an entity, and reads back as
\* the input string; the interpolated texts are exactly the title and the
\* section fields.
C19_AllTextEscaped ==
    /\ exportOp = "escapeHtml" =>
          /\ NoRawSpecial(exportOut)
          /\ Unescaped(exportOut) = exportIn
    /\ exportOp = "buildStandaloneHtml" =>
          LET texts == TextChunks(exportOut)
              given == << IF exportIn.title = << >> THEN << "S", "i", "t", "e" >>
                                                   ELSE exportIn.title >>
                       \o SiteTexts(exportIn.sections)
          IN /\ Len(texts) = Len(given)
             /\ \A i \in 1..Len(texts) :
                   /\ NoRawSpecial(texts[i].s)
                   /\ Unescaped(texts[i].s) = given[i]

\* a hero headline <t> was rendered as &lt;t&gt;
C19_Witness ==
    /\ exportOp = "buildStandaloneHtml"
    /\ exportIn.sections[1].type = "hero"
    /\ exportIn.sections[1].headline = << "<", "t", ">" >>
    /\ \E i \in 1..Len(exportOut) :
          exportOut[i].s = << "&", "l", "t", ";", "t", "&", "g", "t", ";" >>

\* the segments of a path: the runs of tokens between its slashes
RECURSIVE Segments(_)
Segments(path) ==
    IF \A i \in 1..Len(path) : path[i] # "/" THEN << path >>
    ELSE LET k == CHOOSE i \in 1..Len(path) :
                     path[i] = "/" /\ \A j \in 1..(i - 1) : path[j] # "/"
         IN << SubSeq(path, 1, k - 1) >> \o Segments(SubSeq(path, k + 1, Len(path)))

IsAbsolutePath(path) == path # << >> /\ path[1] = "/"

HasTraversalSegment(path) ==
    \E i \in 1..Len(Segments(path)) : Segments(path)[i] = << ".", "." >>

EmittedNames ==
    IF exportOp = "filenameForSite" THEN { exportOut }
    ELSE IF exportOp \in { "buildProjectZip", "downloadWebsite", "downloadReactProject" }
    THEN { exportOut[i].name : i \in 1..Len(exportOut) }
    ELSE {}

\* C20 (as stated): every file name produced by buildProjectZip,
\* filenameForSite, downloadWebsite and downloadReactProject is a relative
\* path: it has no leading "/" and no ".." segment.
C20_RelativePathsOnly ==
    \A name \in EmittedNames : ~IsAbsolutePath(name) /\ ~HasTraversalSegment(name)

\* the value JSON.parse read from the cleaned text of the response at hand
ParsedInput == JsonParse(exportOut.jsonText)

IsEmptyArray(v) == v.t = "array" /\ v.a = << >>

NothingStored == site = NoResult /\ website = NoResult /\ reactProject = NoResult

\* the response at hand was refused: the schema threw, no setter ran, and the
\* catch handed the text to attemptAutoFix
Refused == ~exportOut.ok /\ exportOut.repair /\ NothingStored

SectionTypes == { << "hero" >>, << "features" >>, << "testimonial" >>, << "cta" >> }

\* the type tags of the sections of a site value
TypeTags(v) ==
    LET secs == Get(v, Key("sections"))
    IN [ i \in 1..Len(secs.a) |-> Get(secs.a[i], Key("type")).s ]

\* C22: in a preview generation a value with a section whose type tag is not
\* hero, features, testimonial or cta is rejected as a whole; a stored site has
\* every section of the parsed value, in order, each with one of the four tags.
C22_UnknownTagRejected ==
    (exportOp = "parseGenerated" /\ exportIn.generationType = "preview" /\ ParsedInput.ok) =>
        LET v == ParsedInput.v
        IN /\ (Get(v, Key("sections")).t = "array"
                 /\ \E i \in 1..Len(TypeTags(v)) : TypeTags(v)[i] \notin SectionTypes) => Refused
           /\ exportOut.ok =>
                 /\ site = Stored(exportOut.value)
                 /\ TypeTags(site.value) = TypeTags(v)
                 /\ \A i \in 1..Len(TypeTags(v)) : TypeTags(v)[i] \in SectionTypes

\* a hero section followed by a section of type banner: the value was refused
C22_Witness ==
    /\ exportOp = "parseGenerated"
    /\ exportIn.generationType = "preview"
    /\ ParsedInput.ok
    /\ TypeTags(ParsedInput.v) = << << "hero" >>, << "banner" >> >>
    /\ Refused

\* {"title":"T","sections":[{"type":"hero","headline":"H"}]}
LegacySiteJson == SiteJson(<< >>, << HeroJson >>)

\* the legacy site was parsed from the response's text in a preview generation
LegacySiteParsed ==
    /\ exportOp = "parseGenerated"
    /\ exportIn.generationType = "preview"
    /\ ParsedInput.ok
    /\ ParsedInput.v = LegacySiteJson

\* the value is a project with exactly one page, of slug "index", title "T",
\* theme "green" and one hero section
IsOnePageProject(v) ==
    /\ Get(v, Key("theme")) = JStr("green")
    /\ LET pages == Get(v, Key("pages"))
       IN /\ pages.t = "array"
          /\ Len(pages.a) = 1
          /\ Get(pages.a[1], Key("slug")) = JStr("index")
          /\ Get(pages.a[1], Key("title")) = JStr("T")
          /\ Get(pages.a[1], Key("sections")) = Arr(<< HeroJson >>)

RECURSIVE DeepEqual(_, _)
DeepEqual(a, b) ==
    /\ a.t = b.t
    /\ a.s = b.s
    /\ IF a.t = "object"
       THEN /\ Len(a.a) = Len(b.a)
            /\ \A i \in 1..Len(a.a) :
                  /\ Has(b, a.a[i].k)
                  /\ DeepEqual(Get(a, a.a[i].k), Get(b, a.a[i].k))
       ELSE /\ Len(a.a) = Len(b.a)
            /\ \A i \in 1..Len(a.a) : DeepEqual(a.a[i], b.a[i])

\* sections with the fields of their variant and no other
WellFormedSectionJsons ==
    { sec \in SectionJsons :
        /\ Get(sec, Key("type")).s \in SectionTypes
        /\ ~Has(sec, Key("badge")) }

\* sites in the shape {title, theme?, sections}: one section or more, each
\* well formed, and the theme, when there is one, a member of the enum
WellFormedSiteJsons ==
    { v \in ResponseValues :
        /\ v.t = "object"
        /\ { v.a[i].k : i \in 1..Len(v.a) } \in { { Key("title"), Key("sections") },
                                                 { Key("title"), Key("theme"), Key("sections") } }
        /\ Get(v, Key("title")).t = "string"
        /\ Has(v, Key("theme")) => Get(v, Key("theme")).s \in { << th >> : th \in Themes }
        /\ Get(v, Key("sections")).t = "array"
        /\ Get(v, Key("sections")).a # << >>
        /\ \A i \in 1..Len(Get(v, Key("sections")).a) :
              Get(v, Key("sections")).a[i] \in WellFormedSectionJsons }

\* the response's text is JSON as it stands
TextIsJson == JsonParse(exportIn.text).ok

InJsonFence(text) ==
    /\ Len(text) >= 3
    /\ text[1] = Fence
    /\ text[2] \in JsonWords
    /\ text[Len(text)] = Fence

\* what is between the opening fence with its word and the closing fence
FenceInner(text) == SubSeq(text, 3, Len(text) - 1)

IsProse(tok) == ~IsWhitespace(tok) /\ tok # Fence /\ tok \notin JsonWords

\* the text holds one balanced JSON object or array, and prose before or
\* after it
ProseAroundJson(text) ==
    LET span == BalancedSpan(text)
    IN /\ span[1] # 0
       /\ \E i \in 1..Len(text) : IsProse(text[i]) /\ (i < span[1] \/ i > span[2])
       /\ JsonParse(SubSeq(text, span[1], span[2])).ok

CommaStripped(text) ==
    LET stripped == StripTrailingCommas(text)
        r == ReadValue(stripped, 1)
    IN [ text |-> stripped,
         ok |-> r.ok /\ SkipWhitespace(stripped, r.i) > Len(stripped) ]

\* the text is valid JSON except for trailing commas right before a closing
\* brace or bracket
ValidButForTrailingCommas(text) ==
    LET stripped == CommaStripped(text)
    IN stripped.text # text /\ stripped.ok

ZipEntry(name) == exportOut[CHOOSE i \in 1..Len(exportOut) : exportOut[i].name = name]

SiteOperations == { "filenameForSite", "buildStandaloneHtml", "buildProjectZip" }

SlugOfName == SubSeq(exportOut, 1, Len(exportOut) - 2)

IsAlnum(c) == c \in { "a", "A", "7" }

\* the letters and digits of a title, in lower case
AlnumOf(title) == ToLowerCase(SelectSeq(title, IsAlnum))

----------------------------------------------------------------------------
(* The result slots, loading and fixing *)

NonNullResults ==
    { slot \in { "site", "website", "reactProject" } :
        \/ slot = "site" /\ site # NoResult
        \/ slot = "website" /\ website # NoResult
        \/ slot = "reactProject" /\ reactProject # NoResult }

\* C32: in every reachable state, under any sequence of handleGenerate,
\* handleManualFix and generation-type changes, at most one of site, website
\* and reactProject is non-null.
C32_AtMostOneResult == Cardinality(NonNullResults) <= 1

\* the slot that holds the result of a generation of type g
SlotFor(g) ==
    IF g = "preview" THEN "site" ELSE IF g = "react-vite" THEN "reactProject" ELSE "website"

\* C33: when a handleGenerate invocation settles successfully, error is null
\* and exactly the slot of the generation type selected when the invocation
\* started is non-null, also when the type was changed while it was in flight.
C33_SlotOfTypeAtStart ==
    [][ (/\ pc \in { "fetch", "fix" }
         /\ pc' = "done"
         /\ (error' = NoError \/ NonNullResults' # {}))
        => /\ error' = NoError
           /\ NonNullResults' = { SlotFor(typeAtStart) } ]_vars

\* a generation started as preview has stored its site after the type was
\* changed to fullstack in flight
C33_Witness ==
    /\ pc = "done"
    /\ error = NoError
    /\ generationType = "fullstack"
    /\ site # NoResult
    /\ website = NoResult
    /\ reactProject = NoResult

\* C34: loading is true from the start of a handleGenerate invocation until
\* it settles and false once it has settled, on every path: success, repaired
\* success, terminal failure and the early input-validation failures.
C34_LoadingWhileRunning ==
    /\ pc \in { "fetch", "sleep", "fix" } => loading
    /\ pc = "done" => ~loading
    /\ pc = "idle" => ~loading

\* an invocation has settled with a repaired result
C34_Witness ==
    /\ pc = "done"
    /\ ~loading
    /\ repairCount > 0
    /\ NonNullResults # {}
    /\ error = NoError

\* C35: a handleGenerate invocation started with an empty API key, or with a
\* prompt that is empty after trimming, settles with no network call and no
\* backoff sleep, a non-null error, and site, website, reactProject and
\* lastRawText all null: the results of the previous generation are cleared.
C35_InvalidInputSettlesAtOnce ==
    [][ (/\ pc \in { "idle", "done" }
         /\ apiKey = "" \/ Trim(prompt) = ""
         /\ UNCHANGED << apiKey, model, prompt, generationType >>)
        => /\ pc' = "done"
           /\ inFlight' = {}
           /\ primaryLog' = << >>
           /\ repairCount' = 0
           /\ sleepLog' = << >>
           /\ error' # NoError
           /\ site' = NoResult
           /\ website' = NoResult
           /\ reactProject' = NoResult
           /\ lastRawText' = NoText ]_vars

\* a generation with a key and a blank prompt has settled
C35_Witness ==
    /\ pc = "done"
    /\ apiKey # ""
    /\ prompt # ""
    /\ Trim(prompt) = ""
    /\ error = EmptyPromptError
    /\ primaryLog = << >>
    /\ NonNullResults = {}
    /\ lastRawText = NoText

\* C36: handleManualFix does nothing when the API key is empty or lastRawText
\* is null; otherwise it issues exactly one repair call, with the user-selected
\* model and the raw text; when the repair fails it sets error and leaves site,
\* website, reactProject and lastRawText unchanged; fixing is false once it
\* has settled, on every path.
C36_ManualFix ==
    [][ /\ (HandleManualFix /\ (apiKey = "" \/ lastRawText = NoText)) => UNCHANGED vars
        /\ (pc \in { "idle", "done" } /\ pc' = "manualfix")
           => /\ apiKey # "" /\ lastRawText # NoText
              /\ fixing'
              /\ Cardinality(inFlight') = 1
              /\ \A rq \in inFlight' :
                    rq.call = "repair" /\ rq.model = model /\ rq.badText = lastRawText
        /\ pc = "manualfix"
           => /\ pc' = "done"
              /\ inFlight' = {}
              /\ ~fixing'
              /\ lastRawText' = lastRawText
              /\ \A r \in Responses :
                    (ManualFixResponse(r)
                     /\ ~(CarriesText(r) /\ Acceptable(typeAtStart, r.body.text)))
                    => /\ error' # NoError
                       /\ UNCHANGED << site, website, reactProject >> ]_vars

\* a repair asked for by hand has failed and left the site of the generation
\* in place
C36_Witness ==
    /\ pc = "done"
    /\ ~fixing
    /\ error.kind = "manualFix"
    /\ site # NoResult
    /\ lastRawText # NoText
    /\ model # DEFAULT_MODEL

----------------------------------------------------------------------------
(* The raw text and the repair calls *)

\* C37: after a handleGenerate invocation settles, lastRawText is the text of
\* the most recent primary response of that invocation that carried text, or
\* null if none did; a repair response never changes lastRawText.
C37_RawTextOfLastPrimary ==
    [][ /\ (pc \in { "idle", "done" } /\ pc' \in { "fetch", "done" }
            /\ UNCHANGED << apiKey, model, prompt, generationType >>)
           => lastRawText' = NoText
        /\ pc = "fetch"
           => \A r \in Responses :
                 PrimaryResponse(r)
                 => lastRawText' = IF CarriesText(r) THEN r.body.text ELSE lastRawText
        /\ pc \in { "sleep", "fix" } => lastRawText' = lastRawText ]_vars

\* an invocation has settled with a repaired site, the raw text being the
\* primary response's
C37_Witness ==
    /\ pc = "done"
    /\ repairCount > 0
    /\ site # NoResult
    /\ lastRawText # NoText
    /\ lastRawText.payload # site.value

\* C38: each automatic repair call goes to the model of the primary attempt it
\* repairs; a failed repair consumes that attempt's retry slot (the next
\* primary attempt is the next retry of the model, or the first attempt of the
\* next model); one invocation makes at most 2 x |modelsToTry| x (maxRetries+1)
\* network calls, 36 with the built-in list.
C38_RepairSharesTheAttempt ==
    [][ /\ (pc = "fetch" /\ pc' = "fix")
           => /\ Cardinality(inFlight' \ inFlight) = 1
              /\ \A rq \in inFlight' \ inFlight :
                    /\ rq.call = "repair"
                    /\ rq.model = Pending.model
                    /\ rq.model = primaryLog[Len(primaryLog)].model
              /\ UNCHANGED << mi, attempt, primaryLog >>
        /\ (pc = "fix" /\ ~(pc' = "done" /\ error' = NoError))
           => IF attempt < maxRetries
              THEN pc' = "sleep" /\ mi' = mi /\ attempt' = attempt + 1
              ELSE IF mi < Len(modelsToTry)
              THEN pc' = "fetch" /\ mi' = mi + 1 /\ attempt' = 0
              ELSE pc' = "done" /\ error'.kind = "allFailed"
        /\ repairCount' <= Len(primaryLog')
        /\ Len(primaryLog') + repairCount' <= 2 * MaxPrimary ]_vars

\* every primary attempt was answered with invalid text and every repair
\* failed: 36 calls
C38_Witness ==
    /\ pc = "done"
    /\ Len(primaryLog) = MaxPrimary
    /\ repairCount = MaxPrimary
    /\ Len(primaryLog) + repairCount = 36

----------------------------------------------------------------------------
(* The body of index.html *)

\* C39: the index.html that buildProjectZip writes contains, between its
\* <body> and its script tag, exactly the section markup that
\* buildStandaloneHtml renders for the same site, for every site, one whose
\* text fields contain the strings "<body>" or "</body>" included.
C39_BodyIsTheSections ==
    (exportOp = "buildProjectZip")
    => LET html == ZipEntry(<< "index", ".", "html" >>).content
           open == IndexOf(html, << "<", "body", ">" >>)
           script == LastIndexOf(html, << "<script script.js>" >>)
       IN /\ open # 0
          /\ script > open
          /\ SubSeq(html, open + 3, script - 1) = HtmlText(JoinSections(exportIn.sections))
          /\ Occurrences(HtmlText(buildStandaloneHtml(exportIn)),
                         HtmlText(JoinSections(exportIn.sections))) # {}

\* the archive of a site whose title is "<body>" and whose section holds
\* "</body>" and "<body>"
C39_Witness ==
    /\ exportOp = "buildProjectZip"
    /\ exportIn.title = << "<", "body", ">" >>
    /\ exportIn.sections = << Cta(<< "<", "/", "body", ">" >>, << "<", "body", ">" >>) >>
    /\ Len(BodyContent(HtmlText(buildStandaloneHtml(exportIn)))) > 0

====
